---- MODULE Spec2Model ----
(***************************************************************************)
(* Model of the Apache Flink MCP server (src/mcp_server.py).               *)
(*                                                                         *)
(* The server is one asyncio process.  Every tool is a coroutine: it runs  *)
(* without interruption from one await to the next.  The awaits are the    *)
(* HTTP GETs and the exit of each "async with httpx.AsyncClient()" block,  *)
(* which closes the client.  After a GET of a read-only tool the close     *)
(* delays the return and nothing else, as a slower answer would, and is    *)
(* not a step of its own; in initialize_flink_connection it lies between   *)
(* the probe and the write of FLINK_CONNECTION and is a step.  A "task"    *)
(* below is one slot in which tool invocations run one after the other;    *)
(* several tasks interleave at the awaits.  Strings are sequences of       *)
(* tokens, so that rstrip, concatenation and join are computed as the code *)
(* computes them.                                                          *)
(***************************************************************************)
EXTENDS Integers, Sequences, FiniteSets, TLC

(***************************************************************************)
(* Bounds of the model.                                                    *)
(***************************************************************************)
NumTasks == 2
MaxSlashes == 2
MaxListed == 3
MaxSelected == 120
MaxSubtasks == 3
MaxTms == 2
MaxLimbs == 6

\* the callers of the server: NumTasks of them call initialize_flink_connection
\* and one calls the read-only tools, whose invocations share nothing with
\* one another but what they read of FLINK_CONNECTION
Initializers == 1..NumTasks
Reader == NumTasks + 1
Tasks == 1..Reader

(***************************************************************************)
(* Inputs.                                                                 *)
(***************************************************************************)
Hosts == {"http://a", "http://b"}

RECURSIVE Slashes(_)
Slashes(k) == IF k = 0 THEN <<>> ELSE <<"/">> \o Slashes(k - 1)

\* flink_url arguments of initialize_flink_connection
Urls == {<<h>> \o Slashes(k) : h \in Hosts, k \in 0..MaxSlashes}

\* job, vertex and taskmanager identifiers supplied by the caller
Ids == {"id1", ""}

\* what a GET can come back with: a status code, a transport error, a timeout
Statuses == {"200", "404", "500"}
Responses == Statuses \cup {"neterr", "timeout"}

\* the timeout, in seconds, that a tool passes to its client or to its
\* request; 0 when it passes none and the default of httpx applies
timeout ==
    [initialize_flink_connection |-> 5, get_cluster_info |-> 0, list_jobs |-> 0,
     get_job_details |-> 10, list_taskmanagers |-> 10, get_job_exceptions |-> 0,
     list_jar_files |-> 0, get_job_metrics |-> 10, get_taskmanager_details |-> 10,
     get_taskmanager_metrics |-> 10, get_vertex_backpressure |-> 10]

\* Response.raise_for_status() raises httpx.HTTPStatusError
HTTPStatusError(r) == r \in Statuses /\ r # "200"

\* JSON bodies of a 200 answer, as far as a handler branches on them
Bodies == {"empty", "items"}

(***************************************************************************)
(* Strings and lists.                                                      *)
(***************************************************************************)
\* the trailing "/" are left in place
rstrip_kept(s) == s

\* str.rstrip('/'): drop every trailing "/"
RECURSIVE rstrip(_)
rstrip(s) ==
    IF s = <<>> THEN s
    ELSE IF s[Len(s)] = "/" THEN rstrip(SubSeq(s, 1, Len(s) - 1))
    ELSE s

\* ",".join(names): the names with a "," between each two
join(names) ==
    IF names = <<>> THEN <<>>
    ELSE [i \in 1..(2 * Len(names) - 1) |->
            IF i % 2 = 1 THEN names[(i + 1) \div 2] ELSE ","]

\* buf is yielded one element late, when it holds n + 1
RECURSIVE _chunk_wide(_, _)
_chunk_wide(seq, n) ==
    IF seq = <<>> THEN <<>>
    ELSE IF Len(seq) < n + 1 THEN <<seq>>
    ELSE <<SubSeq(seq, 1, n + 1)>> \o _chunk_wide(SubSeq(seq, n + 2, Len(seq)), n)

\* _chunk(seq, n): buf is filled from seq and yielded each time it holds n
\* elements; what is left in buf at the end of seq is yielded if not empty
RECURSIVE _chunk(_, _)
_chunk(seq, n) ==
    IF seq = <<>> THEN <<>>
    ELSE IF Len(seq) < n THEN <<seq>>
    ELSE <<SubSeq(seq, 1, n)>> \o _chunk(SubSeq(seq, n + 1, Len(seq)), n)

\* Python None against a str
None == [isNone |-> TRUE, s |-> <<>>]
Str(s) == [isNone |-> FALSE, s |-> s]

(***************************************************************************)
(* JSON scalars and numbers.                                               *)
(***************************************************************************)
LOWER == <<"a", "b", "c", "d", "e", "f", "g", "h", "i", "j", "k", "l", "m",
           "n", "o", "p", "q", "r", "s", "t", "u", "v", "w", "x", "y", "z">>
UPPER == <<"A", "B", "C", "D", "E", "F", "G", "H", "I", "J", "K", "L", "M",
           "N", "O", "P", "Q", "R", "S", "T", "U", "V", "W", "X", "Y", "Z">>

\* the string is compared as the cluster wrote it
upper_kept(s) == s

\* str.upper()
upper(s) ==
    [i \in 1..Len(s) |->
       IF \E k \in 1..Len(LOWER) : LOWER[k] = s[i]
       THEN UPPER[CHOOSE k \in 1..Len(LOWER) : LOWER[k] = s[i]]
       ELSE s[i]]

\* the "value" of a metric item as resp.json() gives it: null, a number, a
\* string (a sequence of characters), or no "value" key at all
JNull == [json |-> "null", n |-> 0, s |-> <<>>]
JAbsent == [json |-> "absent", n |-> 0, s |-> <<>>]
JNum(n) == [json |-> "number", n |-> n, s |-> <<>>]
JStr(s) == [json |-> "string", n |-> 0, s |-> s]

\* dict.get("value"): None for null and for a missing key
IsNone(v) == v.json \in {"null", "absent"}

\* d.get(key, default)
GetOr(v, default) == IF v.json = "absent" THEN default ELSE v

\* Python None against a number: a number has a whole part n and, when it
\* is a float that is not whole, its decimals frac and its sign neg
NoNum == [isNone |-> TRUE, n |-> 0, frac |-> <<>>, neg |-> FALSE]
Num(n) == [isNone |-> FALSE, n |-> n, frac |-> <<>>, neg |-> n < 0]
Real(neg, whole, frac) ==
    [isNone |-> FALSE, n |-> IF neg THEN -whole ELSE whole, frac |-> frac, neg |-> neg]

\* x > k for a whole number k >= 0
GreaterThan(x, k) == x.n > k \/ (x.n = k /\ x.frac # <<>> /\ ~x.neg)

Digits == {"0", "1", "2", "3", "4", "5", "6", "7", "8", "9"}

DigitVal(c) ==
    CASE c = "0" -> 0 [] c = "1" -> 1 [] c = "2" -> 2 [] c = "3" -> 3 [] c = "4" -> 4
      [] c = "5" -> 5 [] c = "6" -> 6 [] c = "7" -> 7 [] c = "8" -> 8 [] c = "9" -> 9

\* str.strip(): the string without its leading and trailing blanks
RECURSIVE strip(_)
strip(s) ==
    IF s = <<>> THEN s
    ELSE IF s[1] = " " THEN strip(Tail(s))
    ELSE IF s[Len(s)] = " " THEN strip(SubSeq(s, 1, Len(s) - 1))
    ELSE s

\* the value of a string of digits
RECURSIVE Parse(_)
Parse(s) ==
    IF s = <<>> THEN 0 ELSE 10 * Parse(SubSeq(s, 1, Len(s) - 1)) + DigitVal(s[Len(s)])

\* the decimals without their trailing zeros
RECURSIVE Decimals(_)
Decimals(q) ==
    IF q # <<>> /\ q[Len(q)] = "0" THEN Decimals(SubSeq(q, 1, Len(q) - 1)) ELSE q

\* what float(s) gives or raises
Floated(kind, neg, whole, frac) == [kind |-> kind, neg |-> neg, whole |-> whole, frac |-> frac]

\* float(s) of a string without exponent and underscores: blanks around, a
\* sign, then "nan", "inf" or "infinity" in any case, or digits with at
\* most one point; ValueError on everything else
float(s) ==
    LET t == strip(s)
        signed == t # <<>> /\ t[1] \in {"+", "-"}
        neg == signed /\ t[1] = "-"
        body == IF signed THEN Tail(t) ELSE t
        dots == {i \in 1..Len(body) : body[i] = "."}
        point == IF dots = {} THEN Len(body) + 1 ELSE CHOOSE i \in dots : TRUE
        whole == SubSeq(body, 1, point - 1)
        decimals == SubSeq(body, point + 1, Len(body))
    IN  IF upper(body) = <<"N", "A", "N">> THEN Floated("nan", neg, 0, <<>>)
        ELSE IF upper(body) \in {<<"I", "N", "F">>, <<"I", "N", "F", "I", "N", "I", "T", "Y">>}
        THEN Floated("inf", neg, 0, <<>>)
        ELSE IF /\ Cardinality(dots) <= 1
                /\ whole \o decimals # <<>>
                /\ \A i \in 1..Len(whole \o decimals) : (whole \o decimals)[i] \in Digits
        THEN Floated("finite", neg, Parse(whole), Decimals(decimals))
        ELSE Floated("ValueError", FALSE, 0, <<>>)

\* a finite float f as a number: int(f) when int(f) == f, f when not
Number(f) ==
    IF f.frac = <<>> THEN Num(IF f.neg THEN -f.whole ELSE f.whole)
    ELSE Real(f.neg, f.whole, f.frac)

\* a string that float() rejects, or reads as nan or inf, is the number 0
_to_num_lenient(v) ==
    IF v.json = "number" THEN Num(v.n)
    ELSE IF v.json = "string" /\ strip(v.s) # <<>>
    THEN IF float(v.s).kind = "finite" THEN Number(float(v.s)) ELSE Num(0)
    ELSE NoNum

\* _to_num(v): a number as it is; of a string that is not blank f = float(v)
\* and i = int(f), i when i == f and f when not; the bare except turns the
\* ValueError of float(v) and of int(nan) and the OverflowError of int(inf)
\* into None, which is also the result for everything else
_to_num(v) ==
    IF v.json = "number" THEN Num(v.n)
    ELSE IF v.json = "string" /\ strip(v.s) # <<>>
    THEN IF float(v.s).kind = "finite" THEN Number(float(v.s)) ELSE NoNum
    ELSE NoNum

\* x or 0, for a whole number x
OrZero(x) == IF x.isNone \/ x.n = 0 THEN 0 ELSE x.n

(***************************************************************************)
(* get_job_metrics' curated list and the batch size of fetch_values.       *)
(***************************************************************************)
common ==
    << "uptime", "runningTime", "downtime", "initializingTime", "deployingTime",
       "restartingTime", "failingTime", "cancellingTime",
       "numRestarts", "fullRestarts",
       "totalNumberOfCheckpoints", "numberOfCompletedCheckpoints",
       "numberOfFailedCheckpoints", "numberOfInProgressCheckpoints",
       "lastCompletedCheckpointId", "lastCheckpointDuration", "lastCheckpointSize",
       "lastCheckpointFullSize", "lastCheckpointPersistedData",
       "lastCheckpointProcessedData", "lastCheckpointRestoreTimestamp",
       "lastCheckpointExternalPath",
       "createdTime" >>

BATCH == 50

(***************************************************************************)
(* The cluster's side of the metrics endpoint.                             *)
(***************************************************************************)
\* one entry of the unfiltered metrics list; an entry can lack "id"
Listed(n) == [hasId |-> TRUE, id |-> n]
NoId == [hasId |-> FALSE, id |-> ""]

ListedItems == {Listed("uptime"), Listed("numRestarts"), Listed("lastCheckpointSize"),
                Listed("other"), NoId}

RECURSIVE SeqsUpTo(_, _)
SeqsUpTo(S, k) ==
    IF k = 0 THEN {<<>>}
    ELSE LET shorter == SeqsUpTo(S, k - 1)
         IN  shorter \cup {Append(q, x) : q \in shorter, x \in S}

\* a cluster: what the unfiltered GET lists, and the order of the items of a
\* filtered answer relative to the order of the names in the request
Servers == [listing : SeqsUpTo(ListedItems, MaxListed), order : {"asc", "desc"}]

Reverse(s) == [i \in 1..Len(s) |-> s[Len(s) + 1 - i]]

\* the value the cluster reports for a metric
ValueAt(srv, name) ==
    IF "values" \in DOMAIN srv /\ name \in DOMAIN srv.values
    THEN srv.values[name]
    ELSE JStr(<<"1">>)

\* resp.json() of a filtered GET for names
ServerItems(srv, names) ==
    LET inOrder == IF srv.order = "asc" THEN names ELSE Reverse(names)
    IN  [i \in 1..Len(inOrder) |-> [id |-> inOrder[i], value |-> ValueAt(srv, inOrder[i])]]

VARIABLES
    FLINK_CONNECTION,   \* the global dict {"url", "initialized"}
    pc,                 \* per task: where its coroutine is suspended
    tool,               \* per task: the tool it runs or ran last
    frame,              \* per task: the locals of the running coroutine
    outcome,            \* per task: what its last invocation returned
    server,             \* the cluster behind the endpoints
    verified,           \* history: endpoint of the last probe that succeeded
    succeeded,          \* history: endpoint of the last call that succeeded
    last                \* history: the last two invocations that returned

vars == <<FLINK_CONNECTION, pc, tool, frame, outcome, server, verified, succeeded, last>>

\* a GET request: the URL, the "get" query parameter (<<>> when absent) and,
\* once the coroutine has resumed from it, what it came back with
Get(u, q) == [url |-> u, get |-> q, resp |-> "pending"]

\* the frame f after its request in flight has come back with r
Answered(f, r) == [f EXCEPT !.reqs[Len(f.reqs)].resp = r]

\* the locals: url is flink_url / url / base_url, ids the identifiers the
\* tool was called with, reqs the GETs the invocation has issued so far, pos
\* the index in flight of fetch_values' loop
NoFrame == [url |-> <<>>, ids |-> <<>>, job_data |-> "None", selected |-> <<>>,
            results |-> <<>>, pos |-> 0, reqs |-> <<>>]

Out(kind, text, arg) == [kind |-> kind, text |-> text, arg |-> arg]

Pending == Out("none", "", <<>>)

NOT_INITIALIZED ==
    Out("not_initialized",
        "Flink connection not initialized. Please call initialize_flink_connection first.",
        <<>>)

\* the gate lets every caller through
check_initialized_open == [ok |-> TRUE, err |-> Pending]

\* check_initialized(): (ok, error message)
check_initialized ==
    IF ~FLINK_CONNECTION.initialized
    THEN [ok |-> FALSE, err |-> NOT_INITIALIZED]
    ELSE [ok |-> TRUE, err |-> Pending]

(***************************************************************************)
(* Steps of a coroutine.                                                   *)
(***************************************************************************)
\* history is kept in the behaviours that compare invocations: the
\* identifiers, the requests and the outcome of the invocation that returns
NoHistory == [on |-> FALSE, calls |-> <<>>]

Call(f, out) == [ids |-> f.ids, reqs |-> f.reqs, out |-> out]

Noted(calls, c) == IF calls = <<>> THEN <<c>> ELSE <<calls[Len(calls)], c>>

\* return out to the caller of the tool; the frame is gone
Return(t, out) ==
    /\ pc' = [pc EXCEPT ![t] = "idle"]
    /\ outcome' = [outcome EXCEPT ![t] = out]
    /\ frame' = [frame EXCEPT ![t] = NoFrame]
    /\ last' = IF last.on THEN [last EXCEPT !.calls = Noted(@, Call(frame[t], out))] ELSE last

\* await client.get(...): suspend at label with the frame f, req issued;
\* nothing has been returned by the running invocation yet
Await(t, label, f, req) ==
    /\ pc' = [pc EXCEPT ![t] = label]
    /\ frame' = [frame EXCEPT ![t] = [f EXCEPT !.reqs = Append(@, req)]]
    /\ outcome' = [outcome EXCEPT ![t] = Pending]
    /\ UNCHANGED last

(***************************************************************************)
(* initialize_flink_connection                                             *)
(***************************************************************************)
initialize_flink_connection(t, flink_url) ==
    /\ pc[t] = "idle"
    /\ tool' = [tool EXCEPT ![t] = "initialize_flink_connection"]
    /\ Await(t, "probe", [NoFrame EXCEPT !.url = rstrip(flink_url)],
             Get(rstrip(flink_url) \o <<"/", "overview">>, <<>>))
    /\ UNCHANGED <<FLINK_CONNECTION, server, verified, succeeded>>

\* the endpoint a probe request was sent to: its URL without "/overview"
Probed(req) == Str(SubSeq(req.url, 1, Len(req.url) - 2))

\* the probe answered 200 and raise_for_status() passed; the coroutine is
\* suspended in the exit of the "async with" block, which closes the client
initialize_closing(t) ==
    /\ pc[t] = "probe"
    /\ pc' = [pc EXCEPT ![t] = "closing"]
    /\ frame' = [frame EXCEPT ![t] = Answered(@, "200")]
    /\ verified' = Probed(frame[t].reqs[1])
    /\ UNCHANGED <<FLINK_CONNECTION, tool, outcome, server, succeeded, last>>

\* the block is left, at once when the close does not suspend: both fields
\* are written with no await between, and the call returns
initialize_connected(t) ==
    /\ pc[t] \in {"probe", "closing"}
    /\ FLINK_CONNECTION' = [url |-> Str(frame[t].url), initialized |-> TRUE]
    /\ verified' = IF pc[t] = "probe" THEN Probed(frame[t].reqs[1]) ELSE verified
    /\ succeeded' = Probed(frame[t].reqs[1])
    /\ Return(t, Out("connected", "Successfully connected to Flink cluster at ",
                     frame[t].url))
    /\ UNCHANGED <<tool, server>>

\* a failed probe disconnects
initialize_failed_resets(t, r) ==
    /\ pc[t] = "probe"
    /\ r # "200"
    /\ Return(t, Out("init_failed", "Failed to connect to Flink at ", <<r>>))
    /\ FLINK_CONNECTION' = [url |-> None, initialized |-> FALSE]
    /\ UNCHANGED <<tool, server, verified, succeeded>>

\* the probe raised: except Exception as e; of the message, which echoes
\* flink_url, the cause str(e) is kept
initialize_failed(t, r) ==
    /\ pc[t] = "probe"
    /\ r # "200"
    /\ Return(t, Out("init_failed", "Failed to connect to Flink at ", <<r>>))
    /\ UNCHANGED <<FLINK_CONNECTION, tool, server, verified, succeeded>>

(***************************************************************************)
(* get_connection_status                                                   *)
(***************************************************************************)
\* the status is reported and the connection is forgotten
get_connection_status_forgets(t) ==
    /\ pc[t] = "idle"
    /\ tool' = [tool EXCEPT ![t] = "get_connection_status"]
    /\ Return(t, Out("status", "Connected to: ", <<>>))
    /\ FLINK_CONNECTION' = [url |-> None, initialized |-> FALSE]
    /\ UNCHANGED <<server, verified, succeeded>>

get_connection_status(t) ==
    /\ pc[t] = "idle"
    /\ tool' = [tool EXCEPT ![t] = "get_connection_status"]
    /\ IF FLINK_CONNECTION.initialized
       THEN Return(t, Out("status", "Connected to: ", FLINK_CONNECTION.url.s))
       ELSE Return(t, Out("status",
                          "Not connected. Use initialize_flink_connection to connect.",
                          <<>>))
    /\ UNCHANGED <<FLINK_CONNECTION, server, verified, succeeded>>

(***************************************************************************)
(* The tools that issue one GET.                                           *)
(***************************************************************************)
\* the gate and the first request of a tool: check_initialized(), then the
\* URL is built from FLINK_CONNECTION['url'] and the GET is awaited
Gated(t, name, id, path, label) ==
    /\ pc[t] = "idle"
    /\ tool' = [tool EXCEPT ![t] = name]
    /\ IF ~check_initialized.ok
       THEN Return(t, check_initialized.err)
       ELSE Await(t, label,
                  [NoFrame EXCEPT !.url = FLINK_CONNECTION.url.s \o path, !.ids = id],
                  Get(FLINK_CONNECTION.url.s \o path, <<>>))
    /\ UNCHANGED <<FLINK_CONNECTION, server, verified, succeeded>>

\* the coroutine resumes from its only await and returns
Resumed(t, name, out) ==
    /\ pc[t] = "get"
    /\ tool[t] = name
    /\ Return(t, out)
    /\ UNCHANGED <<FLINK_CONNECTION, tool, server, verified, succeeded>>

\* except Exception as e: return f"{text}{str(e)}"
Caught(text, r) == Out("error", text, <<r>>)

\* except httpx.HTTPStatusError / httpx.TimeoutException / Exception
CaughtByKind(id, notFound, timedOut, text, r) ==
    IF r \in Statuses
    THEN IF r = "404" /\ notFound # ""
         THEN Out("not_found", notFound, id)
         ELSE Out("http_error", "HTTP Error", <<r>>)
    ELSE IF r = "timeout"
    THEN Out("timeout", timedOut, <<>>)
    ELSE Out("error", text, <<r>>)

Report(text, b) == Out(IF b = "empty" THEN "empty" ELSE "report", text, <<>>)

get_cluster_info(t) ==
    Gated(t, "get_cluster_info", <<>>, <<"/", "overview">>, "get")

get_cluster_info_resumed(t, r) ==
    Resumed(t, "get_cluster_info",
            IF r = "200" THEN Out("report", "Flink Cluster Info:", <<>>)
            ELSE Caught("Error fetching cluster info: ", r))

list_jobs(t) ==
    Gated(t, "list_jobs", <<>>, <<"/", "jobs", "/", "overview">>, "get")

list_jobs_resumed(t, r, b) ==
    Resumed(t, "list_jobs",
            IF r = "200"
            THEN Report(IF b = "empty" THEN "No jobs found." ELSE "Flink Jobs Overview:", b)
            ELSE Caught("Error fetching jobs: ", r))

list_taskmanagers(t) ==
    Gated(t, "list_taskmanagers", <<>>, <<"/", "taskmanagers">>, "get")

get_job_exceptions(t, job_id) ==
    Gated(t, "get_job_exceptions", <<job_id>>,
          <<"/", "jobs", "/", job_id, "/", "exceptions">>, "get")

get_job_exceptions_resumed(t, r, b) ==
    Resumed(t, "get_job_exceptions",
            IF r = "200"
            THEN Report(IF b = "empty" THEN "No exceptions found for this job."
                        ELSE "JOB EXCEPTIONS REPORT", b)
            ELSE Caught("Error: ", r))

list_jar_files(t) ==
    Gated(t, "list_jar_files", <<>>, <<"/", "jars">>, "get")

list_jar_files_resumed(t, r, b) ==
    Resumed(t, "list_jar_files",
            IF r = "200"
            THEN Report(IF b = "empty" THEN "No JARs uploaded." ELSE "jars", b)
            ELSE Caught("Error: ", r))

get_taskmanager_details(t, taskmanager_id) ==
    Gated(t, "get_taskmanager_details", <<taskmanager_id>>,
          <<"/", "taskmanagers", "/", taskmanager_id>>, "get")

\* metric_names is None: list the metrics; else query them with ?get=
MetricNames == {<<>>, <<"Status.JVM.CPU.Load", ",", "Status.JVM.Memory.Heap.Used">>}

get_taskmanager_metrics(t, taskmanager_id, metric_names) ==
    Gated(t, "get_taskmanager_metrics", <<taskmanager_id>>,
          <<"/", "taskmanagers", "/", taskmanager_id, "/", "metrics">>
              \o (IF metric_names # <<>> THEN <<"?get=">> \o metric_names ELSE <<>>),
          "get")

get_taskmanager_metrics_resumed(t, r) ==
    Resumed(t, "get_taskmanager_metrics",
            IF r = "200"
            THEN Out("report",
                     IF \E i \in 1..Len(frame[t].url) : frame[t].url[i] = "?get="
                     THEN "TASKMANAGER METRICS: " ELSE "AVAILABLE METRICS for ",
                     frame[t].ids)
            ELSE CaughtByKind(frame[t].ids, "TaskManager not found: ",
                              "Request timeout while fetching TaskManager metrics",
                              "Error getting TaskManager metrics: ", r))

get_vertex_backpressure(t, job_id, vertex_id) ==
    Gated(t, "get_vertex_backpressure", <<job_id, vertex_id>>,
          <<"/", "jobs", "/", job_id, "/", "vertices", "/", vertex_id, "/", "backpressure">>,
          "get")

(***************************************************************************)
(* get_job_details: the job, then its configuration                        *)
(***************************************************************************)
\* details_url is kept in the frame; config_url, built from the same read
\* of FLINK_CONNECTION['url'] before the first await, is details_url/config
get_job_details(t, job_id) ==
    Gated(t, "get_job_details", <<job_id>>, <<"/", "jobs", "/", job_id>>, "details")

\* config_url is built when the details have come back
get_job_details_fetched_rereads(t, r, b) ==
    /\ pc[t] = "details"
    /\ IF r = "200"
       THEN Await(t, "config", [Answered(frame[t], r) EXCEPT !.job_data = b],
                  Get(FLINK_CONNECTION.url.s \o <<"/", "jobs", "/">> \o frame[t].ids
                        \o <<"/", "config">>, <<>>))
       ELSE IF r = "404"
       THEN Return(t, Out("not_found", "Job not found: ", frame[t].ids))
       ELSE IF HTTPStatusError(r)
       THEN Return(t, Out("http_error", "Error fetching job details (HTTP ", <<r>>))
       ELSE Return(t, Out("error", "Error fetching job details: ", <<r>>))
    /\ UNCHANGED <<FLINK_CONNECTION, tool, server, verified, succeeded>>

get_job_details_fetched(t, r, b) ==
    /\ pc[t] = "details"
    /\ IF r = "200"
       THEN Await(t, "config", [Answered(frame[t], r) EXCEPT !.job_data = b],
                  Get(frame[t].url \o <<"/", "config">>, <<>>))
       ELSE IF r = "404"
       THEN Return(t, Out("not_found", "Job not found: ", frame[t].ids))
       ELSE IF HTTPStatusError(r)
       THEN Return(t, Out("http_error", "Error fetching job details (HTTP ", <<r>>))
       ELSE Return(t, Out("error", "Error fetching job details: ", <<r>>))
    /\ UNCHANGED <<FLINK_CONNECTION, tool, server, verified, succeeded>>

(***************************************************************************)
(* get_job_metrics: discovery, then fetch_values                           *)
(***************************************************************************)
\* str(e): an HTTPStatusError names the status and the URL of the request,
\* of which the query string, the only part that differs between the
\* requests of one invocation, is kept
ErrStr(r, req) ==
    IF HTTPStatusError(r)
    THEN <<r>> \o (IF req.get # <<>> THEN <<"?get=">> \o req.get ELSE <<>>)
    ELSE <<r>>

\* the outer except Exception as e: return f"Error: {str(e)}"
MetricsError(f, r) == Out("error", "Error: ", ErrStr(r, f.reqs[Len(f.reqs)]))

\* by_id.get(name, {}).get("value") on by_id = _index_by_id(values): of
\* several items with one id the last stands
ValueOf(values, name) ==
    LET at == {i \in 1..Len(values) : values[i].id = name}
    IN  IF at = {} THEN JAbsent
        ELSE values[CHOOSE i \in at : \A j \in at : j <= i].value

\* a piece of report text: "N/A", or a quantity n shown in a unit
NA == [text |-> "N/A", n |-> 0, unit |-> ""]
Shown(n, unit) == [text |-> "", n |-> n, unit |-> unit]

\* f"{n / per:.2f}{unit}", followed by f" ({n / 1000:.0f}s)" when paren
Timed(n, per, unit, paren) ==
    [text |-> "", n |-> n, unit |-> unit, per |-> per, paren |-> paren]

\* a duration of exactly 60, 3600 or 86400 seconds stays in the smaller unit
_format_duration_late(duration_ms) ==
    IF ~GreaterThan(duration_ms, 0) THEN NA
    ELSE IF ~GreaterThan(duration_ms, 60 * 1000) THEN Timed(duration_ms, 1000, "s", FALSE)
    ELSE IF ~GreaterThan(duration_ms, 3600 * 1000) THEN Timed(duration_ms, 60 * 1000, "m", TRUE)
    ELSE IF ~GreaterThan(duration_ms, 86400 * 1000) THEN Timed(duration_ms, 3600 * 1000, "h", TRUE)
    ELSE Timed(duration_ms, 86400 * 1000, "d", TRUE)

\* _format_duration(duration_ms), duration_ms a number of milliseconds:
\* seconds = duration_ms / 1000 selects the unit
_format_duration(duration_ms) ==
    IF ~GreaterThan(duration_ms, 0) THEN NA
    ELSE IF duration_ms.n < 60 * 1000 THEN Timed(duration_ms, 1000, "s", FALSE)
    ELSE IF duration_ms.n < 3600 * 1000 THEN Timed(duration_ms, 60 * 1000, "m", TRUE)
    ELSE IF duration_ms.n < 86400 * 1000 THEN Timed(duration_ms, 3600 * 1000, "h", TRUE)
    ELSE Timed(duration_ms, 86400 * 1000, "d", TRUE)

\* _format_timestamp(ts)
_format_timestamp(ts) == IF ts <= 0 THEN NA ELSE Shown(ts, "date")

\* a byte count: its digits in base 1024, the least significant first, and
\* neg for a count below 0
RECURSIVE Limbs(_)
Limbs(n) == IF n = 0 THEN <<>> ELSE <<n % 1024>> \o Limbs(n \div 1024)

Count(n) == [neg |-> n < 0, limbs |-> Limbs(IF n < 0 THEN -n ELSE n)]

\* the digits without leading zeros
RECURSIVE Trim(_)
Trim(q) == IF q # <<>> /\ q[Len(q)] = 0 THEN Trim(SubSeq(q, 1, Len(q) - 1)) ELSE q

\* the value of at most three digits
RECURSIVE Whole(_)
Whole(q) == IF q = <<>> THEN 0 ELSE q[1] + 1024 * Whole(Tail(q))

units == <<"B", "KB", "MB", "GB", "TB">>

\* while bytes_val >= 1024 and unit_index < len(units) - 1: the digit
\* divided out of the whole part goes to the fraction
RECURSIVE divide(_, _, _)
divide(whole, low, unit_index) ==
    IF Len(whole) > 1 /\ unit_index < Len(units) - 1
    THEN divide(Tail(whole), Append(low, whole[1]), unit_index + 1)
    ELSE [whole |-> whole, low |-> low, unit_index |-> unit_index]

\* 100 times the fraction with the digits low: its floor q, and what is
\* left of it as rem / 1024 plus, when sticky, less than 1 / 1024 more
RECURSIVE Scaled(_)
Scaled(low) ==
    IF low = <<>> THEN [q |-> 0, rem |-> 0, sticky |-> FALSE]
    ELSE LET inner == Scaled(SubSeq(low, 1, Len(low) - 1))
             x == 100 * low[Len(low)] + inner.q
         IN  [q |-> x \div 1024, rem |-> x % 1024,
              sticky |-> inner.rem # 0 \/ inner.sticky]

\* ".2f" of the fraction: to the nearest hundredth, a tie to the even one;
\* the double of every count modelled prints as its exact quotient does
Cents(low) ==
    LET c == Scaled(low)
    IN  IF c.rem > 512 \/ (c.rem = 512 /\ (c.sticky \/ c.q % 2 = 1)) THEN c.q + 1 ELSE c.q

\* f"{bytes_val:.2f} {unit}": the whole part and the hundredths printed
Bytes(whole, cents, unit) ==
    [text |-> "", n |-> IF cents = 100 THEN whole + 1 ELSE whole,
     cents |-> IF cents = 100 THEN 0 ELSE cents, unit |-> unit]

\* _format_bytes(bytes_val)
_format_bytes(bytes_val) ==
    IF bytes_val.neg \/ Trim(bytes_val.limbs) = <<>>
    THEN [text |-> "0 B", n |-> 0, unit |-> ""]
    ELSE LET d == divide(Trim(bytes_val.limbs), <<>>, 0)
         IN  Bytes(Whole(d.whole), Cents(d.low), units[d.unit_index + 1])

\* f(x) if x is not None else 'N/A'
IfNum(x, shown) == IF x.isNone THEN NA ELSE shown

\* a quotient num / den, or None
NoRatio == [isNone |-> TRUE, num |-> 0, den |-> 1]
Ratio(num, den) == [isNone |-> FALSE, num |-> num, den |-> den]

\* (num / den) if den > 0 else None
RatioOrNone(num, den) == IF den > 0 THEN Ratio(num, den) ELSE NoRatio

\* ratio > p / q, for q > 0
Exceeds(ratio, p, q) == ratio.num * q > p * ratio.den

\* truth value of a raw JSON value: None, "" and 0 are false
Truthy(v) ==
    CASE v.json = "number" -> v.n # 0
      [] v.json = "string" -> v.s # <<>>
      [] OTHER -> FALSE

STALE == "High uptime with 0 completed checkpoints"
FAILING == "Checkpoint failure ratio > 30%"
RESTARTS == "Multiple restarts observed"
SLOW == "Last checkpoint duration > 60s"
NO_PATH == "Completed checkpoints without externalized path"

\* hints.append(h) if cond
HintIf(cond, h) == IF cond THEN <<h>> ELSE <<>>

\* step 3, the typed values: the counters are "_to_num(...) or 0"
Typed(values) ==
    LET num(name) == _to_num(ValueOf(values, name))
    IN  [uptime_ms |-> num("uptime"),
         running_ms |-> num("runningTime"),
         downtime_ms |-> num("downtime"),
         initializing_ms |-> num("initializingTime"),
         deploying_ms |-> num("deployingTime"),
         restarting_ms |-> num("restartingTime"),
         failing_ms |-> num("failingTime"),
         cancelling_ms |-> num("cancellingTime"),
         num_restarts |-> OrZero(num("numRestarts")),
         full_restarts |-> OrZero(num("fullRestarts")),
         total_ckpt |-> OrZero(num("totalNumberOfCheckpoints")),
         completed_ckpt |-> OrZero(num("numberOfCompletedCheckpoints")),
         failed_ckpt |-> OrZero(num("numberOfFailedCheckpoints")),
         inprog_ckpt |-> OrZero(num("numberOfInProgressCheckpoints")),
         last_ckpt_id |-> ValueOf(values, "lastCompletedCheckpointId"),
         last_ckpt_duration_ms |-> num("lastCheckpointDuration"),
         last_ckpt_size_bytes |-> num("lastCheckpointSize"),
         last_ckpt_full_size_bytes |-> num("lastCheckpointFullSize"),
         last_ckpt_persisted_bytes |-> num("lastCheckpointPersistedData"),
         last_ckpt_processed_bytes |-> num("lastCheckpointProcessedData"),
         last_ckpt_restore_ts |-> num("lastCheckpointRestoreTimestamp"),
         last_ckpt_external_path |-> ValueOf(values, "lastCheckpointExternalPath"),
         created_time_ms |-> num("createdTime")]

\* step 4, the derived indicators
success_ratio(m) == RatioOrNone(m.completed_ckpt, m.total_ckpt)
failure_ratio(m) == RatioOrNone(m.failed_ckpt, m.total_ckpt)

\* step 5, the lines of the report
Lines(m) ==
    [Uptime |-> IfNum(m.uptime_ms, _format_duration(m.uptime_ms)),
     Running |-> IfNum(m.running_ms, _format_duration(m.running_ms)),
     Downtime |-> IfNum(m.downtime_ms, _format_duration(m.downtime_ms)),
     Init |-> IfNum(m.initializing_ms, _format_duration(m.initializing_ms)),
     Deploying |-> IfNum(m.deploying_ms, _format_duration(m.deploying_ms)),
     Restarting |-> IfNum(m.restarting_ms, _format_duration(m.restarting_ms)),
     Failing |-> IfNum(m.failing_ms, _format_duration(m.failing_ms)),
     Cancelling |-> IfNum(m.cancelling_ms, _format_duration(m.cancelling_ms)),
     Created |-> IfNum(m.created_time_ms, _format_timestamp(m.created_time_ms.n)),
     Restarts |-> Shown(m.num_restarts, ""),
     FullRestarts |-> Shown(m.full_restarts, ""),
     Total |-> Shown(m.total_ckpt, ""),
     Completed |-> Shown(m.completed_ckpt, ""),
     Failed |-> Shown(m.failed_ckpt, ""),
     InProgress |-> Shown(m.inprog_ckpt, ""),
     SuccessRatio |-> success_ratio(m),
     FailureRatio |-> failure_ratio(m),
     LastCompletedId |-> IF IsNone(m.last_ckpt_id) \/ m.last_ckpt_id = JStr(<<>>)
                         THEN JStr(<<"N/A">>) ELSE m.last_ckpt_id,
     LastDuration |-> IfNum(m.last_ckpt_duration_ms,
                            _format_duration(m.last_ckpt_duration_ms)),
     LastSizeLogical |-> IfNum(m.last_ckpt_size_bytes, _format_bytes(Count(m.last_ckpt_size_bytes.n))),
     LastSizeFull |-> IfNum(m.last_ckpt_full_size_bytes,
                            _format_bytes(Count(m.last_ckpt_full_size_bytes.n))),
     LastPersisted |-> IfNum(m.last_ckpt_persisted_bytes,
                             _format_bytes(Count(m.last_ckpt_persisted_bytes.n))),
     LastProcessed |-> IfNum(m.last_ckpt_processed_bytes,
                             _format_bytes(Count(m.last_ckpt_processed_bytes.n))),
     LastRestoredAt |-> IfNum(m.last_ckpt_restore_ts,
                              _format_timestamp(m.last_ckpt_restore_ts.n)),
     ExternalPath |-> IF Truthy(m.last_ckpt_external_path)
                      THEN m.last_ckpt_external_path ELSE JStr(<<"N/A">>)]

\* the failure rule holds from a ratio of 30% on
hints_from_30(m) ==
    HintIf(GreaterThan(m.uptime_ms, 10 * 60 * 1000) /\ m.completed_ckpt = 0, STALE)
    \o HintIf(m.total_ckpt >= 5 /\ ~failure_ratio(m).isNone
                 /\ ~Exceeds(Ratio(3, 10), failure_ratio(m).num, failure_ratio(m).den),
              FAILING)
    \o HintIf(m.num_restarts >= 3, RESTARTS)
    \o HintIf(GreaterThan(m.last_ckpt_duration_ms, 60000), SLOW)
    \o HintIf(m.completed_ckpt > 0 /\ ~Truthy(m.last_ckpt_external_path), NO_PATH)

\* step 6, the hints, in the order of the if statements
hints(m) ==
    HintIf(GreaterThan(m.uptime_ms, 10 * 60 * 1000) /\ m.completed_ckpt = 0, STALE)
    \o HintIf(m.total_ckpt >= 5 /\ ~failure_ratio(m).isNone
                 /\ Exceeds(failure_ratio(m), 3, 10),
              FAILING)
    \o HintIf(m.num_restarts >= 3, RESTARTS)
    \o HintIf(GreaterThan(m.last_ckpt_duration_ms, 60000), SLOW)
    \o HintIf(m.completed_ckpt > 0 /\ ~Truthy(m.last_ckpt_external_path), NO_PATH)

\* steps 3-6: the report is built from the fetched values; the typed values
\* it is built from are kept with it
MetricsReport(values) ==
    [kind |-> "report", text |-> "=== Job Runtime ===", arg |-> values,
     typed |-> Typed(values),
     lines |-> Lines(Typed(values)), hints |-> hints(Typed(values))]

\* metric_ids = [m["id"] for m in r.json() if "id" in m]
metric_ids(srv) ==
    LET hasId(m) == m.hasId
        withId == SelectSeq(srv.listing, hasId)
    IN  [i \in 1..Len(withId) |-> withId[i].id]

\* the comprehension runs over metric_ids instead of common
Select_in_server_order(desired, available) ==
    LET wanted(m) == \E i \in 1..Len(desired) : desired[i] = m
    IN  SelectSeq(available, wanted)

\* selected = [m for m in common if m in metric_ids]
Select(desired, available) ==
    LET present(m) == \E i \in 1..Len(available) : available[i] = m
    IN  SelectSeq(desired, present)

\* results outlives the invocation: the values of the last report are still
\* in it when the next invocation starts
get_job_metrics_stale_results(t, job_id) ==
    /\ pc[t] = "idle"
    /\ tool' = [tool EXCEPT ![t] = "get_job_metrics"]
    /\ IF ~check_initialized.ok
       THEN Return(t, check_initialized.err)
       ELSE LET base_url == rstrip(FLINK_CONNECTION.url.s)
                                \o <<"/", "jobs", "/", job_id, "/", "metrics">>
            IN  Await(t, "discover",
                      [NoFrame EXCEPT !.url = base_url, !.ids = <<job_id>>,
                                      !.results = IF outcome[t].kind = "report"
                                                  THEN outcome[t].arg ELSE <<>>],
                      Get(base_url, <<>>))
    /\ UNCHANGED <<FLINK_CONNECTION, server, verified, succeeded>>

get_job_metrics(t, job_id) ==
    /\ pc[t] = "idle"
    /\ tool' = [tool EXCEPT ![t] = "get_job_metrics"]
    /\ IF ~check_initialized.ok
       THEN Return(t, check_initialized.err)
       ELSE LET base_url == rstrip(FLINK_CONNECTION.url.s)
                                \o <<"/", "jobs", "/", job_id, "/", "metrics">>
            IN  Await(t, "discover", [NoFrame EXCEPT !.url = base_url, !.ids = <<job_id>>],
                      Get(base_url, <<>>))
    /\ UNCHANGED <<FLINK_CONNECTION, server, verified, succeeded>>

\* an empty selection is raised as an error
get_job_metrics_discovered_raises(t, r) ==
    /\ pc[t] = "discover"
    /\ IF r # "200"
       THEN Return(t, MetricsError(frame[t], r))
       ELSE LET sel == Select(common, metric_ids(server))
            IN  IF sel = <<>>
                THEN Return(t, Out("error", "Error: ", <<"No common metrics">>))
                ELSE Await(t, "batch", [Answered(frame[t], r) EXCEPT !.selected = sel, !.pos = 1],
                           Get(frame[t].url, join(_chunk(sel, BATCH)[1])))
    /\ UNCHANGED <<FLINK_CONNECTION, tool, server, verified, succeeded>>

get_job_metrics_discovered(t, r) ==
    /\ pc[t] = "discover"
    /\ IF r # "200"
       THEN Return(t, MetricsError(frame[t], r))
       ELSE LET sel == Select(common, metric_ids(server))
            IN  IF sel = <<>>
                THEN Return(t, Out("empty", "No common metrics available for this job.",
                                   <<>>))
                ELSE Await(t, "batch", [Answered(frame[t], r) EXCEPT !.selected = sel, !.pos = 1],
                           Get(frame[t].url, join(_chunk(sel, BATCH)[1])))
    /\ UNCHANGED <<FLINK_CONNECTION, tool, server, verified, succeeded>>

\* the except block starts without results.clear()
fetch_values_batch_keeps(t, r) ==
    /\ pc[t] = "batch"
    /\ LET f == Answered(frame[t], r)
           batches == _chunk(f.selected, BATCH)
           res == f.results \o ServerItems(server, batches[f.pos])
       IN  IF r = "200"
           THEN IF f.pos < Len(batches)
                THEN Await(t, "batch", [f EXCEPT !.results = res, !.pos = f.pos + 1],
                           Get(f.url, join(batches[f.pos + 1])))
                ELSE Return(t, MetricsReport(res))
           ELSE IF HTTPStatusError(r)
           THEN Await(t, "single", [f EXCEPT !.pos = 1], Get(f.url, <<f.selected[1]>>))
           ELSE Return(t, MetricsError(f, r))
    /\ UNCHANGED <<FLINK_CONNECTION, tool, server, verified, succeeded>>

\* fetch_values, the try block: one GET per batch of _chunk(selected, 50);
\* an HTTPStatusError clears results and starts the per-name loop
fetch_values_batch(t, r) ==
    /\ pc[t] = "batch"
    /\ LET f == Answered(frame[t], r)
           batches == _chunk(f.selected, BATCH)
           res == f.results \o ServerItems(server, batches[f.pos])
       IN  IF r = "200"
           THEN IF f.pos < Len(batches)
                THEN Await(t, "batch", [f EXCEPT !.results = res, !.pos = f.pos + 1],
                           Get(f.url, join(batches[f.pos + 1])))
                ELSE Return(t, MetricsReport(res))
           ELSE IF HTTPStatusError(r)
           THEN Await(t, "single", [f EXCEPT !.results = <<>>, !.pos = 1],
                      Get(f.url, <<f.selected[1]>>))
           ELSE Return(t, MetricsError(f, r))
    /\ UNCHANGED <<FLINK_CONNECTION, tool, server, verified, succeeded>>

\* fetch_values, the except block: one GET per name; an error here leaves
\* fetch_values and is caught by get_job_metrics
fetch_values_single(t, r) ==
    /\ pc[t] = "single"
    /\ LET f == Answered(frame[t], r)
           res == f.results \o ServerItems(server, <<f.selected[f.pos]>>)
       IN  IF r = "200"
           THEN IF f.pos < Len(f.selected)
                THEN Await(t, "single", [f EXCEPT !.results = res, !.pos = f.pos + 1],
                           Get(f.url, <<f.selected[f.pos + 1]>>))
                ELSE Return(t, MetricsReport(res))
           ELSE Return(t, MetricsError(f, r))
    /\ UNCHANGED <<FLINK_CONNECTION, tool, server, verified, succeeded>>

(***************************************************************************)
(* get_job_details: the report, built after the client is closed and       *)
(* outside every try block.                                                *)
(***************************************************************************)
\* the job of details_response.json(), as far as the head of the report
\* reads it: the raw start-time, end-time and duration
Job == [start_time |-> JNum(1), end_time |-> JNum(-1), duration |-> JNum(1)]

job_data(srv) == IF "job" \in DOMAIN srv THEN srv.job ELSE Job

\* "x > 0" and "x <= 0" are defined on numbers: None and a string against
\* an int raise TypeError
Ordered(v) == v.json = "number"

\* _format_timestamp(start_time) compares before its try block, and
\* "if end_time > 0" compares in the tool itself
Raising(job) ==
    \/ ~Ordered(GetOr(job.start_time, JNum(0)))
    \/ ~Ordered(GetOr(job.end_time, JNum(-1)))

\* _format_duration(duration) on a raw value: float() of None or of a
\* string that is no numeral raises TypeError or ValueError, caught: "N/A";
\* nan and inf are below no threshold and are printed in days, -inf is <= 0
DurationLine(v) ==
    IF v.json = "number" THEN _format_duration(Num(v.n))
    ELSE IF v.json # "string" \/ float(v.s).kind = "ValueError" THEN NA
    ELSE IF float(v.s).kind = "finite" THEN _format_duration(Number(float(v.s)))
    ELSE IF float(v.s).kind = "inf" /\ float(v.s).neg THEN NA
    ELSE Timed(float(v.s), 86400 * 1000, "d", TRUE)

\* the head of the report and its configuration section
JobReport(job, config) ==
    [kind |-> "report", text |-> "JOB OVERVIEW", arg |-> <<config>>,
     started |-> _format_timestamp(GetOr(job.start_time, JNum(0)).n),
     ended |-> IF GetOr(job.end_time, JNum(-1)).n > 0
               THEN <<_format_timestamp(job.end_time.n)>> ELSE <<>>,
     duration |-> DurationLine(GetOr(job.duration, JNum(0)))]

\* a failed config fetch is logged only and config_data stays None; an
\* exception of the report building leaves the tool, which returns nothing
get_job_details_config(t, r) ==
    /\ pc[t] = "config"
    /\ IF frame[t].job_data = "empty"
       THEN Return(t, Out("no_data", "No data retrieved for job ", frame[t].ids))
       ELSE IF Raising(job_data(server))
       THEN Return(t, Out("raised", "TypeError", <<>>))
       ELSE Return(t, JobReport(job_data(server),
                                IF r = "200" THEN "Execution Mode: "
                                ELSE "Configuration data unavailable"))
    /\ UNCHANGED <<FLINK_CONNECTION, tool, server, verified, succeeded>>

(***************************************************************************)
(* list_taskmanagers and get_taskmanager_details: the reports.             *)
(***************************************************************************)
\* one TaskManager of response.json(): every number is read with
\* get(key, 0); hardware and metrics are dicts, shown only when not empty;
\* heapCommitted, which is printed and nothing else, is a byte count
Idle ==
    [slotsNumber |-> 4, freeSlots |-> 1,
     hardware |-> [present |-> FALSE, physicalMemory |-> 0, freeMemory |-> 0],
     metrics |-> [present |-> FALSE, heapUsed |-> 0, heapMax |-> 0,
                  heapCommitted |-> Count(0), directUsed |-> 0, directMax |-> 0]]

tm_data(srv) == IF "tm" \in DOMAIN srv THEN srv.tm ELSE Idle

tms_data(srv) == IF "tms" \in DOMAIN srv THEN srv.tms ELSE <<Idle>>

\* f"{(num/den*100) if den > 0 else 0:.1f}%"
Percent(num, den) == IF den > 0 THEN Ratio(num, den) ELSE Ratio(0, 1)

\* the two percentages of a slot section
SlotLines(slots_total, slots_free) ==
    [total |-> slots_total,
     used |-> Percent(slots_total - slots_free, slots_total),
     free |-> Percent(slots_free, slots_total)]

\* the free-memory line of the hardware section, when there is one
HardwareLines(hardware) ==
    IF hardware.present
    THEN <<Percent(hardware.freeMemory, hardware.physicalMemory)>>
    ELSE <<>>

\* util >= 90 / util >= 70 / else, for util = num / den * 100
Utilization(num, den) ==
    IF num * 100 >= 90 * den THEN "HIGH"
    ELSE IF num * 100 >= 70 * den THEN "MODERATE"
    ELSE "LOW"

\* if heap_used / heap_max > 0.9 if heap_max > 0 else False
heap_warning(metrics) ==
    IF metrics.heapMax > 0
    THEN Exceeds(Ratio(metrics.heapUsed, metrics.heapMax), 9, 10)
    ELSE FALSE

\* one TaskManager of the overview: slots, hardware, utilization analysis
OverviewOf(tm) ==
    [slots |-> SlotLines(tm.slotsNumber, tm.freeSlots),
     no_free_slots |-> tm.freeSlots = 0 /\ tm.slotsNumber > 0,
     hardware |-> HardwareLines(tm.hardware),
     used_memory |->
        IF tm.hardware.present /\ tm.hardware.physicalMemory > 0 /\ tm.hardware.freeMemory > 0
        THEN <<Ratio(tm.hardware.physicalMemory - tm.hardware.freeMemory,
                     tm.hardware.physicalMemory)>>
        ELSE <<>>,
     slot_util |->
        IF tm.slotsNumber > 0
        THEN <<Utilization(tm.slotsNumber - tm.freeSlots, tm.slotsNumber)>>
        ELSE <<>>,
     mem_util |->
        IF tm.hardware.present /\ tm.hardware.physicalMemory > 0
        THEN <<Utilization(tm.hardware.physicalMemory - tm.hardware.freeMemory,
                           tm.hardware.physicalMemory)>>
        ELSE <<>>]

RECURSIVE Sum(_)
Sum(q) == IF q = <<>> THEN 0 ELSE q[1] + Sum(Tail(q))

\* the overview: cluster capacity, every TaskManager, the recommendation
TaskManagersReport(tms) ==
    LET total_slots == Sum([i \in 1..Len(tms) |-> tms[i].slotsNumber])
        total_free_slots == Sum([i \in 1..Len(tms) |-> tms[i].freeSlots])
    IN  [kind |-> "report", text |-> "TASKMANAGERS OVERVIEW", arg |-> <<>>,
         cluster |-> SlotLines(total_slots, total_free_slots),
         each |-> [i \in 1..Len(tms) |-> OverviewOf(tms[i])],
         recommendation |->
            IF total_free_slots = 0 THEN "No free slots available"
            ELSE IF total_free_slots * 10 < total_slots * 2 THEN "Low slot availability"
            ELSE "Sufficient slot capacity available"]

list_taskmanagers_resumed(t, r, b) ==
    Resumed(t, "list_taskmanagers",
            IF r = "200"
            THEN LET tms == IF b = "empty" THEN <<>> ELSE tms_data(server)
                 IN  IF tms = <<>>
                     THEN Report("No TaskManagers registered in the cluster.", "empty")
                     ELSE TaskManagersReport(tms)
            ELSE CaughtByKind(<<>>, "", "Request timeout while listing TaskManagers",
                              "Error listing TaskManagers: ", r))

\* the details of one TaskManager: slots, hardware and, under "if metrics:",
\* the heap line with its warning and the direct-memory line
TaskManagerReport(ids, tm) ==
    [kind |-> "report", text |-> "TASKMANAGER DETAILS: ", arg |-> ids,
     slots |-> SlotLines(tm.slotsNumber, tm.freeSlots),
     hardware |-> HardwareLines(tm.hardware),
     heap |-> IF tm.metrics.present
              THEN <<Percent(tm.metrics.heapUsed, tm.metrics.heapMax)>> ELSE <<>>,
     heap_warning |-> tm.metrics.present /\ heap_warning(tm.metrics),
     committed |-> IF tm.metrics.present
                   THEN <<_format_bytes(tm.metrics.heapCommitted)>> ELSE <<>>,
     direct |-> IF tm.metrics.present
                THEN <<Percent(tm.metrics.directUsed, tm.metrics.directMax)>> ELSE <<>>]

get_taskmanager_details_resumed(t, r) ==
    Resumed(t, "get_taskmanager_details",
            IF r = "200" THEN TaskManagerReport(frame[t].ids, tm_data(server))
            ELSE CaughtByKind(frame[t].ids, "TaskManager not found: ",
                              "Request timeout while fetching TaskManager details",
                              "Error getting TaskManager details: ", r))

(***************************************************************************)
(* get_vertex_backpressure: the analysis of the answer.                    *)
(***************************************************************************)
\* response.json() of the backpressure endpoint: the raw backpressureLevel
\* and, per subtask, the raw ratio; a numeric ratio is carried in hundredths
Calm == [backpressureLevel |-> JStr(<<"o", "k">>), subtasks |-> <<>>]

bp_data(srv) == IF "bp" \in DOMAIN srv THEN srv.bp ELSE Calm

\* isinstance(x, (int, float))
IsNumber(v) == v.json = "number"

\* the pairs (a, b) in hundredths with a - b at most 0.30 as decimals whose
\* difference as doubles is above the double 0.3: 0.4 - 0.1 is
\* 0.30000000000000004
RoundedAbove == {<<40, 10>>}

\* max(ratios) - min(ratios) > 0.3, for ratios that is not empty
Spread(ratios) ==
    LET hi == CHOOSE x \in ratios : \A y \in ratios : y <= x
        lo == CHOOSE x \in ratios : \A y \in ratios : x <= y
    IN  hi - lo > 30 \/ <<hi, lo>> \in RoundedAbove

\* the data-skew check at the end of the analysis
skew(subtasks) ==
    /\ subtasks # <<>>
    /\ Len(subtasks) > 1
    /\ LET ratios == {GetOr(subtasks[i].ratio, JNum(0)).n : i \in
                        {k \in 1..Len(subtasks) : IsNumber(GetOr(subtasks[k].ratio, JNum(0)))}}
       IN  ratios # {} /\ Spread(ratios)

\* the report: the header with both identifiers, the level line, the ratio
\* of each subtask, the conclusion of the analysis and the skew warning
BackpressureReport(ids, bp) ==
    LET bp_level == upper(GetOr(bp.backpressureLevel, JStr(<<"u", "n", "k", "n", "o", "w", "n">>)).s)
        verdict == IF bp_level = <<"O", "K">> THEN "ok"
                   ELSE IF bp_level = <<"L", "O", "W">> THEN "minor"
                   ELSE IF bp_level = <<"H", "I", "G", "H">> THEN "critical"
                   ELSE "none"
    IN  [kind |-> "report", text |-> "BACKPRESSURE ANALYSIS", arg |-> ids,
         level |-> bp_level,
         breakdown |-> [i \in 1..Len(bp.subtasks) |-> GetOr(bp.subtasks[i].ratio, JNum(0))],
         conclusion |-> verdict,
         skew |-> skew(bp.subtasks)]

\* None has no upper(): AttributeError, caught by "except Exception"
get_vertex_backpressure_resumed(t, r) ==
    Resumed(t, "get_vertex_backpressure",
            IF r = "200"
            THEN IF GetOr(bp_data(server).backpressureLevel, JStr(<<>>)).json = "string"
                 THEN BackpressureReport(frame[t].ids, bp_data(server))
                 ELSE Out("error", "Error getting backpressure: ", <<"AttributeError">>)
            ELSE CaughtByKind(frame[t].ids, "Job or vertex not found: ",
                              "Request timeout while fetching backpressure",
                              "Error getting backpressure: ", r))

(***************************************************************************)
(* The server process.                                                     *)
(***************************************************************************)
Fresh ==
    /\ FLINK_CONNECTION = [url |-> None, initialized |-> FALSE]
    /\ pc = [t \in Tasks |-> "idle"]
    /\ tool = [t \in Tasks |-> ""]
    /\ frame = [t \in Tasks |-> NoFrame]
    /\ outcome = [t \in Tasks |-> Pending]
    /\ verified = None
    /\ succeeded = None
    /\ last = NoHistory

\* the cluster the process is pointed at
Cluster == [listing |-> <<Listed("numRestarts"), Listed("other"), NoId, Listed("uptime")>>,
            order |-> "desc"]

Init ==
    /\ Fresh
    /\ server = Cluster

\* the steps of the server when the tasks of I call
\* initialize_flink_connection and the reader calls the other tools
Server(I) ==
    \/ \E t \in I, u \in Urls : initialize_flink_connection(t, u)
    \/ \E t \in I : initialize_closing(t)
    \/ \E t \in I : initialize_connected(t)
    \/ \E t \in I, r \in Responses : initialize_failed(t, r)
    \/ \E t \in {Reader} : get_connection_status(t)
    \/ \E t \in {Reader} : get_cluster_info(t)
    \/ \E t \in {Reader}, r \in Responses : get_cluster_info_resumed(t, r)
    \/ \E t \in {Reader} : list_jobs(t)
    \/ \E t \in {Reader}, r \in Responses, b \in Bodies : list_jobs_resumed(t, r, b)
    \/ \E t \in {Reader} : list_taskmanagers(t)
    \/ \E t \in {Reader}, r \in Responses, b \in Bodies : list_taskmanagers_resumed(t, r, b)
    \/ \E t \in {Reader}, j \in Ids : get_job_exceptions(t, j)
    \/ \E t \in {Reader}, r \in Responses, b \in Bodies : get_job_exceptions_resumed(t, r, b)
    \/ \E t \in {Reader} : list_jar_files(t)
    \/ \E t \in {Reader}, r \in Responses, b \in Bodies : list_jar_files_resumed(t, r, b)
    \/ \E t \in {Reader}, m \in Ids : get_taskmanager_details(t, m)
    \/ \E t \in {Reader}, r \in Responses : get_taskmanager_details_resumed(t, r)
    \/ \E t \in {Reader}, m \in Ids, n \in MetricNames : get_taskmanager_metrics(t, m, n)
    \/ \E t \in {Reader}, r \in Responses : get_taskmanager_metrics_resumed(t, r)
    \/ \E t \in {Reader}, j \in Ids, v \in Ids : get_vertex_backpressure(t, j, v)
    \/ \E t \in {Reader}, r \in Responses : get_vertex_backpressure_resumed(t, r)
    \/ \E t \in {Reader}, j \in Ids : get_job_details(t, j)
    \/ \E t \in {Reader}, r \in Responses, b \in Bodies : get_job_details_fetched(t, r, b)
    \/ \E t \in {Reader}, r \in Responses : get_job_details_config(t, r)
    \/ \E t \in {Reader}, j \in Ids : get_job_metrics(t, j)
    \/ \E t \in {Reader}, r \in Responses : get_job_metrics_discovered(t, r)
    \/ \E t \in {Reader}, r \in Responses : fetch_values_batch(t, r)
    \/ \E t \in {Reader}, r \in Responses : fetch_values_single(t, r)


Next == Server(Initializers)

Spec == Init /\ [][Next]_vars

(***************************************************************************)
(* The tools behind one caller of initialize_flink_connection.             *)
(***************************************************************************)
NextTools == Server({1})

SpecTools == Init /\ [][NextTools]_vars

(***************************************************************************)
(* The connection session: concurrent initialize_flink_connection calls,   *)
(* observed through get_connection_status and get_cluster_info.            *)
(***************************************************************************)
NextSession ==
    \/ \E t \in Initializers, u \in Urls : initialize_flink_connection(t, u)
    \/ \E t \in Initializers : initialize_closing(t)
    \/ \E t \in Initializers : initialize_connected(t)
    \/ \E t \in Initializers, r \in Responses : initialize_failed(t, r)
    \/ get_connection_status(Reader)
    \/ get_cluster_info(Reader)
    \/ \E r \in Responses : get_cluster_info_resumed(Reader, r)

SpecSession == Init /\ [][NextSession]_vars

(***************************************************************************)
(* get_job_metrics against every cluster: the connection has been          *)
(* initialized and the reader calls get_job_metrics over and over.         *)
(***************************************************************************)
Connected(h) ==
    /\ FLINK_CONNECTION = [url |-> Str(<<h>>), initialized |-> TRUE]
    /\ verified = Str(<<h>>)
    /\ succeeded = Str(<<h>>)
    /\ tool = [t \in Tasks |-> IF t = 1 THEN "initialize_flink_connection" ELSE ""]
    /\ outcome = [t \in Tasks |->
                    IF t = 1
                    THEN Out("connected", "Successfully connected to Flink cluster at ", <<h>>)
                    ELSE Pending]

InitMetrics ==
    /\ \E h \in Hosts : Connected(h)
    /\ last = NoHistory
    /\ pc = [t \in Tasks |-> "idle"]
    /\ frame = [t \in Tasks |-> NoFrame]
    /\ server \in Servers

NextMetrics ==
    \/ \E j \in Ids : get_job_metrics(Reader, j)
    \/ \E r \in Responses : get_job_metrics_discovered(Reader, r)
    \/ \E r \in Responses : fetch_values_batch(Reader, r)
    \/ \E r \in Responses : fetch_values_single(Reader, r)

SpecMetrics == InitMetrics /\ [][NextMetrics]_vars

\* every request comes back, with an answer, a transport error or, after
\* the 10 s of httpx.Timeout(10.0) at the latest, a timeout
Returning ==
    /\ WF_vars(\E r \in Responses : get_job_metrics_discovered(Reader, r))
    /\ WF_vars(\E r \in Responses : fetch_values_batch(Reader, r))
    /\ WF_vars(\E r \in Responses : fetch_values_single(Reader, r))

SpecMetricsReturning == SpecMetrics /\ Returning

(***************************************************************************)
(* fetch_values over selected lists of every length up to MaxSelected:     *)
(* the reader is inside get_job_metrics, its first batch in flight.        *)
(***************************************************************************)
Names(n) == [i \in 1..n |-> ToString(i)]

InFetchValues(job_id, names) ==
    LET base_url == <<"http://a", "/", "jobs", "/", job_id, "/", "metrics">>
    IN  /\ pc = [t \in Tasks |-> IF t = Reader THEN "batch" ELSE "idle"]
        /\ frame = [t \in Tasks |->
                      IF t = Reader
                      THEN [NoFrame EXCEPT
                              !.url = base_url, !.ids = <<job_id>>,
                              !.selected = names, !.pos = 1,
                              !.reqs = <<[Get(base_url, <<>>) EXCEPT !.resp = "200"],
                                         Get(base_url, join(_chunk(names, BATCH)[1]))>>]
                      ELSE NoFrame]
        /\ server \in [listing : {[i \in 1..Len(names) |-> Listed(names[i])]},
                       order : {"asc", "desc"}]

InitFetchValues ==
    /\ Connected("http://a")
    /\ last = NoHistory
    /\ \E n \in 1..MaxSelected : InFetchValues("id1", Names(n))

NextFetchValues ==
    \/ \E r \in Responses : fetch_values_batch(Reader, r)
    \/ \E r \in Responses : fetch_values_single(Reader, r)

SpecFetchValues == InitFetchValues /\ [][NextFetchValues]_vars

(***************************************************************************)
(* The evaluation of get_job_metrics: the values are fetched from clusters *)
(* that report each of the metrics the hints read in several ways.         *)
(***************************************************************************)
\* the metrics the rules read, in the order of common
Evaluated ==
    <<"uptime", "numRestarts", "totalNumberOfCheckpoints", "numberOfCompletedCheckpoints",
      "numberOfFailedCheckpoints", "lastCheckpointDuration", "lastCheckpointExternalPath">>

\* the values a cluster may report for them
Reported ==
    [uptime : {JNull, JStr(<<"6", "0", "0", "0", "0", "0">>), JNum(600001)},
     numRestarts : {JStr(<<" ">>), JStr(<<"3">>)},
     totalNumberOfCheckpoints : {JNull, JStr(<<"0">>), JStr(<<"4">>), JStr(<<"1", "0">>)},
     numberOfCompletedCheckpoints : {JAbsent, JStr(<<"0">>), JStr(<<"6">>)},
     numberOfFailedCheckpoints : {JNull, JStr(<<"3">>), JStr(<<" ", "4">>)},
     lastCheckpointDuration : {JNull, JStr(<<"6", "0", "0", "0", "1">>)},
     lastCheckpointExternalPath : {JNull, JStr(<<"s3://bucket">>)}]

InitEvaluate ==
    /\ Connected("http://a")
    /\ last = NoHistory
    /\ LET base_url == <<"http://a", "/", "jobs", "/", "id1", "/", "metrics">>
       IN  /\ pc = [t \in Tasks |-> IF t = Reader THEN "batch" ELSE "idle"]
           /\ frame = [t \in Tasks |->
                         IF t = Reader
                         THEN [NoFrame EXCEPT
                                 !.url = base_url, !.ids = <<"id1">>,
                                 !.selected = Evaluated, !.pos = 1,
                                 !.reqs = <<[Get(base_url, <<>>) EXCEPT !.resp = "200"],
                                            Get(base_url, join(Evaluated))>>]
                         ELSE NoFrame]
    /\ \E v \in Reported, o \in {"asc", "desc"} :
          server = [listing |-> [i \in 1..Len(Evaluated) |-> Listed(Evaluated[i])],
                    order |-> o, values |-> v]

NextEvaluate ==
    \/ \E r \in Responses : fetch_values_batch(Reader, r)
    \/ \E r \in Responses : fetch_values_single(Reader, r)

SpecEvaluate == InitEvaluate /\ [][NextEvaluate]_vars

(***************************************************************************)
(* The formatting of get_job_metrics: the clusters report the uptime and   *)
(* the duration of the last checkpoint in many ways.                       *)
(***************************************************************************)
Formatted == <<"uptime", "lastCheckpointDuration">>

\* durations in ms on both sides of every unit boundary
Durations ==
    {-1, 0, 1, 59999, 60000, 60001, 3599999, 3600000, 86399999, 86400000, 90000000}

\* the "value" of an item: missing, null, numbers, and strings that are
\* blank, whole, signed, fractional, not finite or no numeral at all
Raw ==
    {JAbsent,
     JNull,
     JNum(7),
     JNum(0),
     JNum(-2),
     JStr(<<>>),
     JStr(<<" ">>),
     JStr(<<"1", "2">>),
     JStr(<<" ", "1", "2", " ">>),
     JStr(<<"0", "0", "7">>),
     JStr(<<"-", "3">>),
     JStr(<<"+", "4">>),
     JStr(<<"2", ".", "0">>),
     JStr(<<"2", ".", "5", "0">>),
     JStr(<<"0", ".", "5">>),
     JStr(<<"-", "0", ".", "5">>),
     JStr(<<".", "5">>),
     JStr(<<"1", ".">>),
     JStr(<<"n", "a", "n">>),
     JStr(<<"N", "a", "N">>),
     JStr(<<"-", "i", "n", "f">>),
     JStr(<<"I", "n", "f", "i", "n", "i", "t", "y">>),
     JStr(<<"a", "b", "c">>),
     JStr(<<"1", ".", "2", ".", "3">>),
     JStr(<<"-">>),
     JStr(<<"1", " ", "2">>)}

Printed ==
    [uptime : {JNum(d) : d \in Durations},
     lastCheckpointDuration : Raw]

InitFormat ==
    /\ Connected("http://a")
    /\ last = NoHistory
    /\ LET base_url == <<"http://a", "/", "jobs", "/", "id1", "/", "metrics">>
       IN  /\ pc = [t \in Tasks |-> IF t = Reader THEN "batch" ELSE "idle"]
           /\ frame = [t \in Tasks |->
                         IF t = Reader
                         THEN [NoFrame EXCEPT
                                 !.url = base_url, !.ids = <<"id1">>,
                                 !.selected = Formatted, !.pos = 1,
                                 !.reqs = <<[Get(base_url, <<>>) EXCEPT !.resp = "200"],
                                            Get(base_url, join(Formatted))>>]
                         ELSE NoFrame]
    /\ \E v \in Printed, o \in {"asc", "desc"} :
          server = [listing |-> [i \in 1..Len(Formatted) |-> Listed(Formatted[i])],
                    order |-> o, values |-> v]

SpecFormat == InitFormat /\ [][NextEvaluate]_vars

(***************************************************************************)
(* get_job_metrics called again and again against a cluster that answers   *)
(* a request the same way each time it is made.                            *)
(***************************************************************************)
\* the "get" parameters get_job_metrics can send to Cluster
Queries ==
    LET sel == Select(common, metric_ids(Cluster))
    IN  {<<>>, join(sel)} \cup {<<sel[i]>> : i \in 1..Len(sel)}

\* Cluster with a status for each request
Answering == {[listing |-> Cluster.listing, order |-> Cluster.order, status |-> st] :
                st \in [Queries -> Responses]}

\* what the request in flight of task t comes back with
StatusOf(t) == server.status[frame[t].reqs[Len(frame[t].reqs)].get]

InitTwice ==
    /\ Connected("http://a")
    /\ pc = [t \in Tasks |-> "idle"]
    /\ frame = [t \in Tasks |-> NoFrame]
    /\ server \in Answering
    /\ last = [on |-> TRUE, calls |-> <<>>]

NextTwice ==
    \/ \E j \in Ids : get_job_metrics(Reader, j)
    \/ pc[Reader] = "discover" /\ get_job_metrics_discovered(Reader, StatusOf(Reader))
    \/ pc[Reader] = "batch" /\ fetch_values_batch(Reader, StatusOf(Reader))
    \/ pc[Reader] = "single" /\ fetch_values_single(Reader, StatusOf(Reader))

SpecTwice == InitTwice /\ [][NextTwice]_vars

(***************************************************************************)
(* The diagnosis tools against clusters whose answers are drawn from the   *)
(* cases their reports branch on: the reader calls get_vertex_backpressure,*)
(* get_taskmanager_details and list_taskmanagers over and over.            *)
(***************************************************************************)
Levels ==
    {JAbsent, JNull,
     JStr(<<"o", "k">>), JStr(<<"O", "K">>),
     JStr(<<"l", "o", "w">>), JStr(<<"L", "O", "W">>),
     JStr(<<"h", "i", "g", "h">>), JStr(<<"H", "i", "g", "h">>),
     JStr(<<"H", "I", "G", "H">>), JStr(<<"b", "u", "s", "y">>)}

SubtaskRatios ==
    {JAbsent, JNull, JStr(<<"N", "a", "N">>),
     JNum(10), JNum(20), JNum(35), JNum(40), JNum(50)}

Subtasks(n) == SeqsUpTo([ratio : SubtaskRatios], n)

\* every level over at most one subtask, and every list of subtasks under
\* a calm and under a high level
Backpressures ==
    [backpressureLevel : Levels, subtasks : Subtasks(1)]
        \cup [backpressureLevel : {JStr(<<"o", "k">>), JStr(<<"H", "I", "G", "H">>)},
              subtasks : Subtasks(MaxSubtasks)]

SlotCounts == {<<0, 0>>, <<4, 0>>, <<4, 1>>, <<10, 1>>}

Hardwares ==
    {Idle.hardware}
        \cup [present : {TRUE}, physicalMemory : {0}, freeMemory : {0}]
        \cup [present : {TRUE}, physicalMemory : {100}, freeMemory : {10, 40}]

Heaps == {<<0, 0>>, <<89, 100>>, <<90, 100>>, <<91, 100>>}

Directs == {<<0, 0>>, <<50, 100>>}

Metrics ==
    {Idle.metrics}
        \cup {[present |-> TRUE, heapUsed |-> h[1], heapMax |-> h[2],
               heapCommitted |-> Count(h[1]),
               directUsed |-> d[1], directMax |-> d[2]] : h \in Heaps, d \in Directs}

TaskManagers(H, M) ==
    {[slotsNumber |-> c[1], freeSlots |-> c[2], hardware |-> h, metrics |-> m] :
        c \in SlotCounts, h \in H, m \in M}

Diagnosed ==
    {[listing |-> Cluster.listing, order |-> Cluster.order, bp |-> b] : b \in Backpressures}
        \cup {[listing |-> Cluster.listing, order |-> Cluster.order, tm |-> x] :
                x \in TaskManagers(Hardwares, Metrics)}
        \cup {[listing |-> Cluster.listing, order |-> Cluster.order, tms |-> q] :
                q \in SeqsUpTo(TaskManagers({Idle.hardware, [present |-> TRUE,
                                                             physicalMemory |-> 100,
                                                             freeMemory |-> 10]},
                                            {Idle.metrics}), MaxTms)}

InitDiagnose ==
    /\ Connected("http://a")
    /\ last = NoHistory
    /\ pc = [t \in Tasks |-> "idle"]
    /\ frame = [t \in Tasks |-> NoFrame]
    /\ server \in Diagnosed

NextDiagnose ==
    \/ \E j \in Ids, v \in Ids : get_vertex_backpressure(Reader, j, v)
    \/ \E r \in Responses : get_vertex_backpressure_resumed(Reader, r)
    \/ \E m \in Ids : get_taskmanager_details(Reader, m)
    \/ \E r \in Responses : get_taskmanager_details_resumed(Reader, r)
    \/ list_taskmanagers(Reader)
    \/ \E r \in Responses, b \in Bodies : list_taskmanagers_resumed(Reader, r, b)

SpecDiagnose == InitDiagnose /\ [][NextDiagnose]_vars


(***************************************************************************)
(* get_taskmanager_details against TaskManagers whose committed heap is    *)
(* every byte count of up to MaxLimbs digits 0, 1 and 1023 in base 1024,   *)
(* and a count below 0.                                                    *)
(***************************************************************************)
Counts ==
    {[neg |-> TRUE, limbs |-> <<1>>]}
        \cup {[neg |-> FALSE, limbs |-> q] :
                q \in {x \in SeqsUpTo({0, 1, 1023}, MaxLimbs) : Trim(x) = x}}

InitBytes ==
    /\ Connected("http://a")
    /\ last = NoHistory
    /\ pc = [t \in Tasks |-> "idle"]
    /\ frame = [t \in Tasks |-> NoFrame]
    /\ \E c \in Counts :
          server = [listing |-> Cluster.listing, order |-> Cluster.order,
                    tm |-> [Idle EXCEPT !.metrics.present = TRUE,
                                        !.metrics.heapCommitted = c]]

NextBytes ==
    \/ \E m \in Ids : get_taskmanager_details(Reader, m)
    \/ \E r \in Responses : get_taskmanager_details_resumed(Reader, r)

SpecBytes == InitBytes /\ [][NextBytes]_vars

(***************************************************************************)
(* get_job_details against clusters that report the times of the job in    *)
(* every way JSON allows.                                                  *)
(***************************************************************************)
Jobs ==
    [start_time : {JAbsent, JNull, JNum(0), JNum(5)},
     end_time : {JAbsent, JNull, JNum(-1), JNum(9), JStr(<<"9">>)},
     duration : {JAbsent, JNull, JNum(60000), JStr(<<"4">>), JStr(<<"x">>)}]

InitDetails ==
    /\ Connected("http://a")
    /\ last = NoHistory
    /\ pc = [t \in Tasks |-> "idle"]
    /\ frame = [t \in Tasks |-> NoFrame]
    /\ \E j \in Jobs :
          server = [listing |-> Cluster.listing, order |-> Cluster.order, job |-> j]

NextDetails ==
    \/ \E j \in Ids : get_job_details(Reader, j)
    \/ \E r \in Responses, b \in Bodies : get_job_details_fetched(Reader, r, b)
    \/ \E r \in Responses : get_job_details_config(Reader, r)

SpecDetails == InitDetails /\ [][NextDetails]_vars

(***************************************************************************)
(* Properties of the connection session.                                   *)
(***************************************************************************)
GatedTools ==
    {"get_cluster_info", "list_jobs", "get_job_details", "list_taskmanagers",
     "get_job_exceptions", "list_jar_files", "get_job_metrics",
     "get_taskmanager_details", "get_taskmanager_metrics", "get_vertex_backpressure"}

\* task t takes the step, and the step is the start of a tool
Starts(t) ==
    /\ pc[t] = "idle"
    /\ <<pc[t], tool[t], frame[t], outcome[t]>> # <<pc'[t], tool'[t], frame'[t], outcome'[t]>>

\* C1: while FLINK_CONNECTION["initialized"] is false, the start of each of
\* the ten gated tools returns at once, with the one not-initialized message,
\* and without having issued a GET (a GET suspends the coroutine, so a tool
\* that has issued one is not idle after its first step).
C1_GateRefusesUninitialized ==
    [][\A t \in Tasks :
          (~FLINK_CONNECTION.initialized /\ Starts(t) /\ tool'[t] \in GatedTools)
              => /\ pc'[t] = "idle"
                 /\ outcome'[t] = NOT_INITIALIZED
                 /\ frame'[t].reqs = <<>>]_vars

C1_Witness ==
    /\ ~FLINK_CONNECTION.initialized
    /\ tool[Reader] = "get_job_metrics"
    /\ pc[Reader] = "idle"
    /\ outcome[Reader] = NOT_INITIALIZED
    /\ frame[Reader].reqs = <<>>

\* C2: neither the step that starts an initialize_flink_connection call nor
\* the step in which its probe fails changes FLINK_CONNECTION (url and
\* initialized both keep their values, whatever they were), and the failing
\* step returns the failure message with the cause.
C2_FailedInitializeKeepsState ==
    [][\A t \in Initializers :
          /\ (Starts(t) /\ tool'[t] = "initialize_flink_connection")
                => FLINK_CONNECTION' = FLINK_CONNECTION
          /\ (pc[t] = "probe" /\ pc'[t] = "idle" /\ outcome'[t].kind # "connected")
                => /\ FLINK_CONNECTION' = FLINK_CONNECTION
                   /\ outcome'[t].kind = "init_failed"
                   /\ outcome'[t].arg[1] \in Responses \ {"200"}]_vars

\* a call has failed while the endpoint of an earlier call is in place
C2_Witness ==
    \E t \in Initializers :
        /\ outcome[t].kind = "init_failed"
        /\ outcome[t].arg = <<"timeout">>
        /\ FLINK_CONNECTION = [url |-> Str(<<"http://b">>), initialized |-> TRUE]

\* a call is between its probe's answer and its write of FLINK_CONNECTION
Closing(t) == pc[t] = "closing"

\* C3: in every reachable state initialized is true exactly when url is set,
\* and, once no call is left between its probe's answer and its write, url
\* is the endpoint whose probe was the last to succeed (None as long as no
\* probe has succeeded).
C3_InitializedIffVerifiedEndpoint ==
    /\ FLINK_CONNECTION.initialized <=> ~FLINK_CONNECTION.url.isNone
    /\ (\A t \in Initializers : ~Closing(t)) => FLINK_CONNECTION.url = verified

\* s begins with the endpoint e followed by a path separator
Targets(s, e) ==
    /\ Len(s) > Len(e)
    /\ SubSeq(s, 1, Len(e)) = e
    /\ s[Len(e) + 1] = "/"

\* C4: a gated tool started before any initialize_flink_connection call has
\* succeeded is refused by the gate; one started after a success is not
\* refused and sends its first GET to the endpoint of the last call that
\* succeeded, which carries no trailing "/"; the later GETs of the invocation
\* go to the host of the first.
C4_GateFollowsLastSuccess ==
    [][\A t \in Tasks :
          /\ (Starts(t) /\ tool'[t] \in GatedTools)
                => IF succeeded.isNone
                   THEN pc'[t] = "idle" /\ outcome'[t] = NOT_INITIALIZED
                   ELSE /\ pc'[t] # "idle"
                        /\ Len(frame'[t].reqs) = 1
                        /\ Targets(frame'[t].reqs[1].url, succeeded.s)
                        /\ succeeded.s # <<>>
                        /\ succeeded.s[Len(succeeded.s)] # "/"
          /\ \A i \in 1..Len(frame'[t].reqs) :
                frame'[t].reqs[i].url[1] = frame'[t].reqs[1].url[1]]_vars

\* the reader's request goes to a, the endpoint of the last call that
\* succeeded, although a call has failed since
C4_Witness ==
    /\ succeeded = Str(<<"http://a">>)
    /\ \E t \in Initializers : outcome[t].kind = "init_failed"
    /\ tool[Reader] = "get_cluster_info"
    /\ pc[Reader] = "get"
    /\ frame[Reader].reqs[1].url = <<"http://a", "/", "overview">>

\* C5: initialize_flink_connection calls exclude one another: at most one of
\* them is between the start of its probe and its state write or failure
\* return.
C5_InitializeSerialized ==
    \A t1, t2 \in Initializers :
        (pc[t1] \in {"probe", "closing"} /\ pc[t2] \in {"probe", "closing"}) => t1 = t2

(***************************************************************************)
(* Properties of get_job_metrics' fetch.                                   *)
(***************************************************************************)
\* the names of a "get" parameter: the tokens between the commas
NamesOf(q) == [i \in 1..((Len(q) + 1) \div 2) |-> q[2 * i - 1]]

WellFormed(q) ==
    /\ Len(q) % 2 = 1
    /\ \A i \in 1..Len(q) : (q[i] = ",") <=> (i % 2 = 0)

RECURSIVE Concat(_)
Concat(ss) == IF ss = <<>> THEN <<>> ELSE Head(ss) \o Concat(Tail(ss))

Range(s) == {s[i] : i \in 1..Len(s)}

PosIn(s, x) == CHOOSE i \in 1..Len(s) : s[i] = x

\* the ids of the entries of the discovery answer
ListedIds == {server.listing[i].id : i \in {j \in 1..Len(server.listing) : server.listing[j].hasId}}

FailedWith(out) == out.kind = "error" /\ out.arg[1] \in Responses \ {"200"}

\* C6: of the GETs of one get_job_metrics invocation the first, and only the
\* first, carries no name filter; selected holds exactly the names of common
\* that the discovery answer lists, in the order of common whatever the order
\* of the answer; and an invocation whose discovery GET came back 200 does
\* not end in an error at that step, whichever names the answer lacks.
C6_SelectedInDeclaredOrder ==
    /\ [](LET f == frame[Reader]
          IN  pc[Reader] # "idle" =>
                /\ \A i \in 1..Len(f.reqs) : (f.reqs[i].get = <<>>) <=> (i = 1)
                /\ \A i \in 1..Len(f.reqs) : f.reqs[i].url = f.url
                /\ pc[Reader] \in {"batch", "single"} =>
                      /\ Range(f.selected) = Range(common) \cap ListedIds
                      /\ \A i, j \in 1..Len(f.selected) :
                            i < j => PosIn(common, f.selected[i]) < PosIn(common, f.selected[j]))
    /\ [][(pc[Reader] = "discover" /\ outcome'[Reader].kind = "error")
             => FailedWith(outcome'[Reader])]_vars

\* the cluster lists numRestarts before uptime, and a name that is not wanted
C6_Witness ==
    /\ pc[Reader] = "batch"
    /\ server.listing = <<Listed("numRestarts"), Listed("other"), Listed("uptime")>>
    /\ frame[Reader].selected = <<"uptime", "numRestarts">>
    /\ Len(frame[Reader].reqs) = 2

NO_COMMON_METRICS == Out("empty", "No common metrics available for this job.", <<>>)

\* C7: when the discovery answer lists none of the names of common, the
\* invocation never has a filtered GET among its requests, and the step that
\* takes the 200 discovery answer returns the "No common metrics available"
\* message, which is not the error message.
C7_EmptySelectionIsNotAnError ==
    [][(Range(common) \cap ListedIds = {}) =>
          /\ pc'[Reader] \notin {"batch", "single"}
          /\ \A i \in 1..Len(frame'[Reader].reqs) : frame'[Reader].reqs[i].get = <<>>
          /\ (pc[Reader] = "discover" /\ pc'[Reader] = "idle")
                => \/ outcome'[Reader] = NO_COMMON_METRICS
                   \/ FailedWith(outcome'[Reader])]_vars

C7_Witness ==
    /\ server.listing = <<Listed("other"), NoId>>
    /\ pc[Reader] = "idle"
    /\ outcome[Reader] = NO_COMMON_METRICS

\* the filtered GETs of a frame: all but the discovery
Filtered(f) == Tail(f.reqs)

\* C8: when the last batch comes back 200 with every batch before it, the
\* invocation has issued ceil(n/50) filtered GETs for its n selected names;
\* each names at least 1 and at most 50 metrics, comma-joined; the names of
\* the batches, one after the other, are the selected names (which are
\* distinct); and the values handed to the report are the answers of the
\* batches in batch order, each in the order the server gave it.
C8_BatchesCoverSelectedInOrder ==
    [][LET f == frame[Reader]
           n == Len(f.selected)
           fr == Filtered(f)
       IN  (pc[Reader] = "batch" /\ pc'[Reader] = "idle" /\ outcome'[Reader].kind = "report")
              => /\ Len(fr) = (n + 49) \div 50
                 /\ \A k \in 1..Len(fr) :
                       /\ WellFormed(fr[k].get)
                       /\ Len(NamesOf(fr[k].get)) \in 1..50
                       /\ k < Len(fr) => fr[k].resp = "200"
                 /\ Concat([k \in 1..Len(fr) |-> NamesOf(fr[k].get)]) = f.selected
                 /\ \A i, j \in 1..n : f.selected[i] = f.selected[j] => i = j
                 /\ outcome'[Reader].arg =
                        Concat([k \in 1..Len(fr) |-> ServerItems(server, NamesOf(fr[k].get))])]_vars

\* 120 names fetched in 3 batches from a server that answers in reverse order
C8_Witness ==
    /\ pc[Reader] = "idle"
    /\ outcome[Reader].kind = "report"
    /\ server.order = "desc"
    /\ Len(outcome[Reader].arg) = 120
    /\ outcome[Reader].arg[1].id = "50"
    /\ outcome[Reader].arg[51].id = "100"
    /\ outcome[Reader].arg[101].id = "120"

\* the per-name loop of the frame f is at p: what came before it
InFallback(f) ==
    LET n == Len(f.selected)
        p == f.pos
        kb == Len(f.reqs) - 1 - p
    IN  /\ p \in 1..n
        /\ kb \in 1..((n + 49) \div 50)
        /\ \A k \in 1..kb :
              IF k < kb THEN f.reqs[1 + k].resp = "200"
              ELSE HTTPStatusError(f.reqs[1 + k].resp)
        /\ \A i \in 1..p :
              /\ f.reqs[1 + kb + i].get = <<f.selected[i]>>
              /\ f.reqs[1 + kb + i].url = f.url
              /\ i < p => f.reqs[1 + kb + i].resp = "200"
        /\ f.results = [i \in 1..(p - 1) |-> ServerItems(server, <<f.selected[i]>>)[1]]

\* C9: after a batch has come back with an HTTP error status, the requests
\* of the invocation are single-name GETs only, one per selected name in
\* selected order (the i-th of them names selected[i]), each issued after the
\* one before it has come back 200; results holds the answers of these GETs
\* alone, nothing of the batches that had succeeded; and when the last of
\* them comes back 200, n of them have been issued and the values handed to
\* the report are their n answers in that order.
C9_FallbackRequestsEachNameOnce ==
    [][LET f == frame[Reader]
       IN  /\ pc'[Reader] = "single" => InFallback(frame'[Reader])
           /\ (pc[Reader] = "single" /\ pc'[Reader] = "idle"
                  /\ outcome'[Reader].kind = "report")
                 => /\ f.pos = Len(f.selected)
                    /\ outcome'[Reader].arg =
                           [i \in 1..Len(f.selected) |->
                               ServerItems(server, <<f.selected[i]>>)[1]]]_vars

\* 120 names: two batches succeeded, the third was rejected, and the 120th
\* single-name GET is in flight
C9_Witness ==
    /\ pc[Reader] = "single"
    /\ Len(frame[Reader].selected) = 120
    /\ frame[Reader].pos = 120
    /\ Len(frame[Reader].reqs) = 1 + 3 + 120
    /\ frame[Reader].reqs[2].resp = "200"
    /\ Len(frame[Reader].results) = 119

\* the status classes of the model's codes
ClientError(r) == r = "404"
ServerError(r) == r = "500"

\* C10: the per-name loop is entered only after a batch came back with a
\* client-error (4xx) status, and a request that came back with a server
\* error, a network failure or a timeout is the last of its invocation.
C10_FallbackOnlyOnClientError ==
    \A t \in Tasks :
        LET f == frame[t]
        IN  /\ pc[t] = "single" => ClientError(f.reqs[Len(f.reqs) - f.pos].resp)
            /\ \A i \in 1..(Len(f.reqs) - 1) :
                  ~(ServerError(f.reqs[i].resp) \/ f.reqs[i].resp \in {"neterr", "timeout"})

\* C11: in the per-name loop, a single-name GET that does not come back 200
\* ends the invocation in that step (no further GET is issued) with an error
\* outcome, not a report, and the error text names the metric of the GET that
\* failed.
C11_SingleFailureIsFatalAndNamed ==
    [][\A r \in Responses \ {"200"} :
          (pc[Reader] = "single" /\ fetch_values_single(Reader, r))
              => /\ pc'[Reader] = "idle"
                 /\ outcome'[Reader].kind = "error"
                 /\ frame[Reader].selected[frame[Reader].pos] \in Range(outcome'[Reader].arg)]_vars

\* C12: of two get_job_metrics invocations made one after the other for the
\* same job, against a cluster that answers each request as before and with
\* FLINK_CONNECTION as before, the second issues the requests of the first,
\* in the same order, and returns what the first returned, the values in the
\* same order.
C12_SecondCallRepeatsFirst ==
    (Len(last.calls) = 2 /\ last.calls[1].ids = last.calls[2].ids)
        => /\ last.calls[2].reqs = last.calls[1].reqs
           /\ last.calls[2].out = last.calls[1].out

\* two invocations for one job have each gone through the per-name loop and
\* returned the report
C12_Witness ==
    /\ Len(last.calls) = 2
    /\ last.calls[1].ids = <<"id1">>
    /\ last.calls[2].ids = <<"id1">>
    /\ last.calls[2].out.kind = "report"
    /\ Len(last.calls[2].out.arg) = 2
    /\ Len(last.calls[2].reqs) = 4
    /\ last.calls[1] = last.calls[2]

(***************************************************************************)
(* Properties of get_job_metrics' report.                                  *)
(***************************************************************************)
\* the report returned to the reader, and the raw value it was given for a metric
Reported_(name) == ValueOf(outcome[Reader].arg, name)

\* the numeric metrics of the report and the line each is shown on
Consumed ==
    {<<"uptime", "Uptime">>, <<"runningTime", "Running">>, <<"downtime", "Downtime">>,
     <<"initializingTime", "Init">>, <<"deployingTime", "Deploying">>,
     <<"restartingTime", "Restarting">>, <<"failingTime", "Failing">>,
     <<"cancellingTime", "Cancelling">>, <<"createdTime", "Created">>,
     <<"numRestarts", "Restarts">>, <<"fullRestarts", "FullRestarts">>,
     <<"totalNumberOfCheckpoints", "Total">>,
     <<"numberOfCompletedCheckpoints", "Completed">>,
     <<"numberOfFailedCheckpoints", "Failed">>,
     <<"numberOfInProgressCheckpoints", "InProgress">>,
     <<"lastCheckpointDuration", "LastDuration">>,
     <<"lastCheckpointSize", "LastSizeLogical">>,
     <<"lastCheckpointFullSize", "LastSizeFull">>,
     <<"lastCheckpointPersistedData", "LastPersisted">>,
     <<"lastCheckpointProcessedData", "LastProcessed">>,
     <<"lastCheckpointRestoreTimestamp", "LastRestoredAt">>}

\* C13: in every report of get_job_metrics, a metric whose raw value is null
\* or missing is shown as unavailable ("N/A") on its line, the counters
\* numRestarts, fullRestarts and the four checkpoint counts included; it is
\* never shown as the number 0.
C13_NullIsUnavailableNeverZero ==
    outcome[Reader].kind = "report"
        => \A c \in Consumed :
              IsNone(Reported_(c[1])) => outcome[Reader].lines[c[2]] = NA

\* the metric is available: its raw value yields a number
Available(name) == ~_to_num(Reported_(name)).isNone

\* C14: a report carries the stale-checkpointing hint only if uptime and the
\* completed-checkpoint count are both available, and the checkpoint-failure
\* hint only if the total and the failed checkpoint count are both available;
\* and a fetch whose last GET comes back 200 ends in a report, whatever is
\* absent.
C14_AbsentInputSuppressesFinding ==
    /\ outcome[Reader].kind = "report"
          => /\ STALE \in Range(outcome[Reader].hints)
                   => Available("uptime") /\ Available("numberOfCompletedCheckpoints")
             /\ FAILING \in Range(outcome[Reader].hints)
                   => Available("totalNumberOfCheckpoints")
                        /\ Available("numberOfFailedCheckpoints")
    /\ (pc[Reader] = "idle" /\ outcome[Reader].kind = "error")
          => outcome[Reader].arg[1] \in Responses \ {"200"}

\* C15: a report carries the checkpoint-failure hint exactly when the total
\* checkpoint count is at least 5 and failed / total is strictly greater than
\* 0.30, the two counts being those the cluster reported (absent: no hint).
C15_FailureHintIffAboveThirty ==
    outcome[Reader].kind = "report"
        => LET total == _to_num(Reported_("totalNumberOfCheckpoints"))
               failed == _to_num(Reported_("numberOfFailedCheckpoints"))
           IN  FAILING \in Range(outcome[Reader].hints)
                   <=> /\ ~total.isNone /\ ~failed.isNone
                       /\ total.n >= 5
                       /\ 10 * failed.n > 3 * total.n

\* total = 10 and failed = 4: the hint is in the report
C15_Witness ==
    /\ outcome[Reader].kind = "report"
    /\ _to_num(Reported_("totalNumberOfCheckpoints")) = Num(10)
    /\ _to_num(Reported_("numberOfFailedCheckpoints")) = Num(4)
    /\ FAILING \in Range(outcome[Reader].hints)

\* the rules in the order in which the specification declares them
Declared == <<FAILING, STALE, RESTARTS, SLOW>>

\* C16: the hints of a report that come from the four rules appear in the
\* order checkpoint health, stale checkpointing, restart instability, slow
\* checkpoint, whichever of the rules fired.
C16_HintsInDeclaredOrder ==
    outcome[Reader].kind = "report"
        => LET h == outcome[Reader].hints
           IN  \A i, j \in 1..Len(h) :
                  (i < j /\ h[i] \in Range(Declared) /\ h[j] \in Range(Declared))
                      => PosIn(Declared, h[i]) < PosIn(Declared, h[j])

(***************************************************************************)
(* Properties of the diagnosis reports.                                    *)
(***************************************************************************)
\* the reader's last invocation of a tool ended in a report
Diagnosis(name) ==
    /\ pc[Reader] = "idle"
    /\ tool[Reader] = name
    /\ outcome[Reader].kind = "report"

\* the subtasks of the answer that report a numeric ratio
Numeric ==
    {i \in 1..Len(bp_data(server).subtasks) : bp_data(server).subtasks[i].ratio.json = "number"}

\* C17: the data-skew finding of a vertex is in the report if and only if
\* at least two of its subtasks report a numeric ratio and the largest of
\* those ratios exceeds the smallest by more than 0.30; a subtask whose
\* ratio is missing or not a number takes no part.
C17_SkewIffNumericSpreadAboveThirty ==
    Diagnosis("get_vertex_backpressure") =>
        (outcome[Reader].skew <=>
            /\ Cardinality(Numeric) >= 2
            /\ \E i \in Numeric, j \in Numeric :
                 bp_data(server).subtasks[i].ratio.n - bp_data(server).subtasks[j].ratio.n > 30)

\* C18: the heap finding of a TaskManager is in the report if and only if
\* heap max is above 0 and heap used / heap max is at least 0.90, exactly
\* 90% included.
C18_HeapFindingIffAtLeastNinety ==
    Diagnosis("get_taskmanager_details") =>
        (outcome[Reader].heap_warning <=>
            /\ tm_data(server).metrics.heapMax > 0
            /\ tm_data(server).metrics.heapUsed * 10 >= 9 * tm_data(server).metrics.heapMax)

\* the raw level is a string spelt with the letters of word, in any case
Spelt(v, word) ==
    /\ v.json = "string"
    /\ Len(v.s) = Len(word)
    /\ \A i \in 1..Len(word) : v.s[i] \in word[i]

HIGH == <<{"h", "H"}, {"i", "I"}, {"g", "G"}, {"h", "H"}>>
LOW == <<{"l", "L"}, {"o", "O"}, {"w", "W"}>>

Quotient(p, num, den) ==
    IF den > 0 THEN ~p.isNone /\ p.num * den = num * p.den ELSE p.isNone

\* C20: every percentage of a TaskManager report (used and free slots,
\* free memory, heap, direct memory) is numerator / denominator when the
\* denominator is above 0 and unavailable when it is not; 0% is never
\* shown for a zero denominator.
C20_PercentagesNeedPositiveDenominator ==
    /\ Diagnosis("get_taskmanager_details") =>
         LET tm == tm_data(server)
             out == outcome[Reader]
         IN  /\ Quotient(out.slots.used, tm.slotsNumber - tm.freeSlots, tm.slotsNumber)
             /\ Quotient(out.slots.free, tm.freeSlots, tm.slotsNumber)
             /\ \A i \in 1..Len(out.hardware) :
                  Quotient(out.hardware[i], tm.hardware.freeMemory, tm.hardware.physicalMemory)
             /\ \A i \in 1..Len(out.heap) :
                  Quotient(out.heap[i], tm.metrics.heapUsed, tm.metrics.heapMax)
             /\ \A i \in 1..Len(out.direct) :
                  Quotient(out.direct[i], tm.metrics.directUsed, tm.metrics.directMax)
    /\ Diagnosis("list_taskmanagers") =>
         LET total_slots == Sum([i \in 1..Len(tms_data(server)) |-> tms_data(server)[i].slotsNumber])
             total_free_slots == Sum([i \in 1..Len(tms_data(server)) |-> tms_data(server)[i].freeSlots])
         IN  /\ Quotient(outcome[Reader].cluster.used, total_slots - total_free_slots, total_slots)
             /\ Quotient(outcome[Reader].cluster.free, total_free_slots, total_slots)
    /\ Diagnosis("list_taskmanagers") =>
         \A i \in 1..Len(outcome[Reader].each) :
            LET tm == tms_data(server)[i]
                out == outcome[Reader].each[i]
            IN  /\ Quotient(out.slots.used, tm.slotsNumber - tm.freeSlots, tm.slotsNumber)
                /\ Quotient(out.slots.free, tm.freeSlots, tm.slotsNumber)
                /\ \A k \in 1..Len(out.hardware) :
                     Quotient(out.hardware[k], tm.hardware.freeMemory,
                              tm.hardware.physicalMemory)

(***************************************************************************)
(* Properties of the formatting helpers.                                   *)
(***************************************************************************)
\* C21: a duration of d ms is shown as "N/A" when d <= 0; otherwise with
\* s = d / 1000 it is shown in seconds when s < 60, in minutes when
\* 60 <= s < 3600, in hours when 3600 <= s < 86400 and in days from 86400 on,
\* the minute, hour and day forms followed by the seconds in parentheses.
C21_DurationUnitFollowsSeconds ==
    (outcome[Reader].kind = "report" /\ Reported_("uptime").json = "number")
        => LET d == Reported_("uptime").n
               shown == outcome[Reader].lines.Uptime
           IN  IF d <= 0 THEN shown = NA
               ELSE /\ shown.n = Num(d)
                    /\ shown.unit = "s" <=> d < 60 * 1000
                    /\ shown.unit = "m" <=> (60 * 1000 <= d /\ d < 3600 * 1000)
                    /\ shown.unit = "h" <=> (3600 * 1000 <= d /\ d < 86400 * 1000)
                    /\ shown.unit = "d" <=> 86400 * 1000 <= d
                    /\ shown.per = (CASE shown.unit = "s" -> 1000
                                      [] shown.unit = "m" -> 60 * 1000
                                      [] shown.unit = "h" -> 3600 * 1000
                                      [] shown.unit = "d" -> 86400 * 1000)
                    /\ shown.paren <=> shown.unit \in {"m", "h", "d"}

\* an uptime of exactly one hour is shown in hours, with the seconds
C21_Witness ==
    /\ outcome[Reader].kind = "report"
    /\ Reported_("uptime") = JNum(3600000)
    /\ outcome[Reader].lines.Uptime = Timed(Num(3600000), 3600 * 1000, "h", TRUE)

\* what _to_num returns for each value of Raw
Normalised ==
    {<<JAbsent, NoNum>>,
     <<JNull, NoNum>>,
     <<JNum(7), Num(7)>>,
     <<JNum(0), Num(0)>>,
     <<JNum(-2), Num(-2)>>,
     <<JStr(<<>>), NoNum>>,
     <<JStr(<<" ">>), NoNum>>,
     <<JStr(<<"1", "2">>), Num(12)>>,
     <<JStr(<<" ", "1", "2", " ">>), Num(12)>>,
     <<JStr(<<"0", "0", "7">>), Num(7)>>,
     <<JStr(<<"-", "3">>), Num(-3)>>,
     <<JStr(<<"+", "4">>), Num(4)>>,
     <<JStr(<<"2", ".", "0">>), Num(2)>>,
     <<JStr(<<"2", ".", "5", "0">>), Real(FALSE, 2, <<"5">>)>>,
     <<JStr(<<"0", ".", "5">>), Real(FALSE, 0, <<"5">>)>>,
     <<JStr(<<"-", "0", ".", "5">>), Real(TRUE, 0, <<"5">>)>>,
     <<JStr(<<".", "5">>), Real(FALSE, 0, <<"5">>)>>,
     <<JStr(<<"1", ".">>), Num(1)>>,
     <<JStr(<<"n", "a", "n">>), NoNum>>,
     <<JStr(<<"N", "a", "N">>), NoNum>>,
     <<JStr(<<"-", "i", "n", "f">>), NoNum>>,
     <<JStr(<<"I", "n", "f", "i", "n", "i", "t", "y">>), NoNum>>,
     <<JStr(<<"a", "b", "c">>), NoNum>>,
     <<JStr(<<"1", ".", "2", ".", "3">>), NoNum>>,
     <<JStr(<<"-">>), NoNum>>,
     <<JStr(<<"1", " ", "2">>), NoNum>>}

\* C26: _to_num never raises; a number is returned as it is, a string that
\* is not blank and reads as a finite number gives that number, an integer
\* when it has no fractional part and a float otherwise, and a missing, null,
\* blank or unreadable value and a string that reads as NaN or as an
\* infinity give an absent result.
C26_ToNumNormalises ==
    outcome[Reader].kind = "report"
        => /\ \E p \in Normalised : p[1] = Reported_("lastCheckpointDuration")
           /\ \A p \in Normalised :
                p[1] = Reported_("lastCheckpointDuration")
                    => outcome[Reader].typed.last_ckpt_duration_ms = p[2]

\* a report built from "NaN" has no duration of the last checkpoint, and one
\* built from "2.50" has the float 2.5
C26_Witness ==
    /\ outcome[Reader].kind = "report"
    /\ \/ /\ Reported_("lastCheckpointDuration") = JStr(<<"N", "a", "N">>)
          /\ outcome[Reader].typed.last_ckpt_duration_ms = NoNum
          /\ outcome[Reader].lines.LastDuration = NA
       \/ /\ Reported_("lastCheckpointDuration") = JStr(<<"2", ".", "5", "0">>)
          /\ outcome[Reader].typed.last_ckpt_duration_ms = Real(FALSE, 2, <<"5">>)

\* C22: a byte count b is shown as "0 B" when b <= 0 and otherwise in one
\* of the units B, KB, MB, GB, TB with a printed value below 1024.00, for
\* counts of 1024^5 and more and for counts just below a power of 1024 too.
C22_PrintedBytesBelow1024 ==
    Diagnosis("get_taskmanager_details") =>
        \A i \in 1..Len(outcome[Reader].committed) :
            LET b == tm_data(server).metrics.heapCommitted
                shown == outcome[Reader].committed[i]
            IN  IF b.neg \/ \A k \in 1..Len(b.limbs) : b.limbs[k] = 0
                THEN shown.text = "0 B"
                ELSE /\ shown.unit \in {"B", "KB", "MB", "GB", "TB"}
                     /\ shown.n < 1024

(***************************************************************************)
(* Properties of get_job_details.                                          *)
(***************************************************************************)
\* C23: get_job_details emits a report if and only if the fetch of the job
\* succeeded. When that fetch fails (an HTTP status, a network error, a
\* timeout) the invocation ends there in an error, the config request never
\* issued; when it succeeds the invocation ends in a report, which marks the
\* configuration as unavailable when the config fetch failed.
C23_ReportIffPrimaryFetched ==
    [][/\ \A r \in Responses \ {"200"}, b \in Bodies :
            get_job_details_fetched(Reader, r, b)
                => /\ pc'[Reader] = "idle"
                   /\ outcome'[Reader].kind \in {"not_found", "http_error", "error"}
                   /\ Len(frame[Reader].reqs) = 1
       /\ \A r \in Responses :
            get_job_details_config(Reader, r)
                => /\ frame[Reader].reqs[1].resp = "200"
                   /\ outcome'[Reader].kind = "report"
                   /\ outcome'[Reader].arg
                        = <<IF r = "200" THEN "Execution Mode: "
                            ELSE "Configuration data unavailable">>]_vars

\* C30: every invocation of a tool on an initialized connection ends by
\* returning a text, a report or an error message, whatever JSON the
\* cluster answers with a 2xx status; no exception leaves a tool, none in
\* particular leaves the report building of get_job_details.
C30_EveryInvocationReturnsText ==
    (FLINK_CONNECTION.initialized /\ pc[Reader] = "idle" /\ tool[Reader] # "")
        => outcome[Reader].kind # "raised"

(***************************************************************************)
(* Properties of the requests of all tools.                                *)
(***************************************************************************)
\* a request of the reader's invocation times out
TimesOut ==
    \/ get_cluster_info_resumed(Reader, "timeout")
    \/ \E b \in Bodies : list_jobs_resumed(Reader, "timeout", b)
    \/ \E b \in Bodies : list_taskmanagers_resumed(Reader, "timeout", b)
    \/ \E b \in Bodies : get_job_exceptions_resumed(Reader, "timeout", b)
    \/ \E b \in Bodies : list_jar_files_resumed(Reader, "timeout", b)
    \/ get_taskmanager_details_resumed(Reader, "timeout")
    \/ get_taskmanager_metrics_resumed(Reader, "timeout")
    \/ get_vertex_backpressure_resumed(Reader, "timeout")
    \/ \E b \in Bodies : get_job_details_fetched(Reader, "timeout", b)
    \/ get_job_metrics_discovered(Reader, "timeout")
    \/ fetch_values_batch(Reader, "timeout")
    \/ fetch_values_single(Reader, "timeout")

\* C24: every request of every tool is made under a timeout that the tool
\* sets itself, and a request that times out ends the invocation in a
\* timeout error, an outcome no other failure produces.
C24_TimeoutIsExplicitAndDistinct ==
    [][TimesOut => /\ timeout[tool[Reader]] > 0
                   /\ pc'[Reader] = "idle"
                   /\ outcome'[Reader].kind = "timeout"]_vars

\* the reader calls a diagnostic tool with the identifier id
CalledWith(id) ==
    \/ get_job_details(Reader, id)
    \/ get_job_exceptions(Reader, id)
    \/ get_job_metrics(Reader, id)
    \/ get_taskmanager_details(Reader, id)
    \/ \E n \in MetricNames : get_taskmanager_metrics(Reader, id, n)
    \/ \E other \in Ids : get_vertex_backpressure(Reader, id, other)
    \/ \E other \in Ids : get_vertex_backpressure(Reader, other, id)

\* C25: a diagnostic tool called with an empty job, vertex or TaskManager
\* identifier returns at once, no request issued; called with any other
\* identifier on an initialized connection it requests a URL that holds the
\* identifier as it was given.
C25_EmptyIdentifierIsRejected ==
    [][\A id \in Ids :
          (FLINK_CONNECTION.initialized /\ CalledWith(id))
              => IF id = ""
                 THEN pc'[Reader] = "idle" /\ frame'[Reader].reqs = <<>>
                 ELSE /\ Len(frame'[Reader].reqs) = 1
                      /\ id \in Range(frame'[Reader].reqs[1].url)]_vars

(***************************************************************************)
(* Properties of FLINK_CONNECTION over all tools.                          *)
(***************************************************************************)
\* C27: FLINK_CONNECTION changes only in the step in which an
\* initialize_flink_connection call whose probe succeeded returns its
\* success; get_connection_status, a failed initialize_flink_connection and
\* every other tool, refused at the gate, failing or succeeding, leave url
\* and initialized as they are, and initialized never goes back to false.
C27_OnlySuccessfulInitializeWrites ==
    [][/\ FLINK_CONNECTION' # FLINK_CONNECTION
            => \E t \in Initializers :
                  /\ tool[t] = "initialize_flink_connection"
                  /\ pc[t] \in {"probe", "closing"}
                  /\ pc'[t] = "idle"
                  /\ outcome'[t].kind = "connected"
                  /\ FLINK_CONNECTION' = [url |-> Str(frame[t].url), initialized |-> TRUE]
       /\ FLINK_CONNECTION.initialized => FLINK_CONNECTION'.initialized]_vars

\* after a success a later initialize_flink_connection has failed and
\* get_job_details has ended in an error, and the connection is in place
C27_Witness ==
    /\ FLINK_CONNECTION.initialized
    /\ \E t \in Initializers : outcome[t].kind = "init_failed"
    /\ pc[Reader] = "idle"
    /\ tool[Reader] = "get_job_details"
    /\ outcome[Reader].kind \notin {"none", "not_initialized", "report"}

\* the URL u lies under the URL or endpoint e
Under(u, e) == Len(u) >= Len(e) /\ SubSeq(u, 1, Len(e)) = e

\* C28: every request of one get_job_metrics or get_job_details invocation
\* (discovery, batches and single-name requests; job and job config) goes
\* to the endpoint FLINK_CONNECTION held when the invocation passed the
\* gate, also when an initialize_flink_connection call to another endpoint
\* succeeds while the invocation is suspended in a request.
C28_RequestsKeepTheGatesEndpoint ==
    [][tool'[Reader] \in {"get_job_metrics", "get_job_details"}
          => /\ (pc[Reader] = "idle" /\ pc'[Reader] # "idle")
                  => /\ frame'[Reader].reqs # <<>>
                     /\ \A i \in 1..Len(frame'[Reader].reqs) :
                          Under(frame'[Reader].reqs[i].url,
                                FLINK_CONNECTION.url.s \o <<"/", "jobs", "/">>)
             /\ (pc[Reader] # "idle" /\ pc'[Reader] # "idle")
                  => \A i \in 1..Len(frame'[Reader].reqs) :
                        Under(frame'[Reader].reqs[i].url, frame[Reader].reqs[1].url)]_vars

\* the connection was moved to b while the invocation that passed the gate
\* for a was suspended, and its next request has gone to a
C28_Witness ==
    /\ tool[Reader] \in {"get_job_metrics", "get_job_details"}
    /\ pc[Reader] # "idle"
    /\ FLINK_CONNECTION.url = Str(<<"http://b">>)
    /\ Len(frame[Reader].reqs) >= 2
    /\ \A i \in 1..Len(frame[Reader].reqs) :
          Under(frame[Reader].reqs[i].url, <<"http://a", "/", "jobs", "/">>)

(***************************************************************************)
(* Properties of the requests of one get_job_metrics invocation.           *)
(***************************************************************************)
\* the request came back with an error
Failed(req) == req.resp \notin {"pending", "200"}

\* the requests among reqs that ask for name
Asking(reqs, name) ==
    {i \in 2..Len(reqs) : \E k \in 1..Len(reqs[i].get) : reqs[i].get[k] = name}

\* the requests issued after one of the invocation has failed
Fallback(reqs) == {i \in 1..Len(reqs) : \E k \in 1..(i - 1) : Failed(reqs[k])}

\* C29: when each request returns or times out, a get_job_metrics invocation
\* ends with a report or an error; with n names selected it issues at most
\* 1 + ceil(n / 50) + n GETs, enters the per-name fallback at most once, asks
\* for each name at most once in a batch and at most once singly, and never
\* issues again a request that failed.
C29_TerminatesWithinRequestBound ==
    /\ [](LET reqs == frame[Reader].reqs
              n == Len(frame[Reader].selected)
          IN  (tool[Reader] = "get_job_metrics" /\ pc[Reader] \in {"batch", "single"})
                  => /\ Len(reqs) <= 1 + ((n + BATCH - 1) \div BATCH) + n
                     /\ Cardinality({i \in 1..Len(reqs) : Failed(reqs[i])}) <= 1
                     /\ \A k \in 1..n :
                          LET asking == Asking(reqs, frame[Reader].selected[k])
                          IN  /\ Cardinality(asking \ Fallback(reqs)) <= 1
                              /\ Cardinality(asking \cap Fallback(reqs)) <= 1
                     /\ \A i, j \in 1..Len(reqs) :
                          (i < j /\ Failed(reqs[i])) => reqs[j].get # reqs[i].get)
    /\ (pc[Reader] # "idle") ~> (pc[Reader] = "idle" /\ outcome[Reader] # Pending)

====
